---------------------------- MODULE Spec2Model ----------------------------
(***************************************************************************)
(* A model of the Bailu CLI agent core: the tool executor (safety          *)
(* mediator), the built-in tool handlers, the run_command safety policy    *)
(* and the orchestrator's run() loop.                                      *)
(*                                                                         *)
(* Text is modelled as a sequence of one-character strings, so that the    *)
(* string operations of the code (startsWith, includes, trim, path         *)
(* resolution) are computed character by character as the code does.       *)
(* A file's content is the sequence of its lines, i.e. content.split("\n"):*)
(* the empty file is <<"">>, the file "x\n" is <<"x", "">>.               *)
(***************************************************************************)
EXTENDS Integers, Sequences, FiniteSets, TLC

VARIABLES
  \* ---- tool executor (ToolExecutor + handlers + file system) ----
  safetyMode,     \* ToolExecutionContext.safetyMode
  fs,             \* the file system: absolute path -> content (domain = existing files)
  backups,        \* ErrorRecoveryManager: absolute path -> sequence of saved contents
  epc,            \* position of execute(): "idle", "prompt", "exited"
  call,           \* the ToolCall being executed (or last executed)
  ev,             \* what execute() did for `call`: prompts, handler, backup, fs operations
  result,         \* the ToolResult returned for `call` (NoResult while pending)
  nCalls,         \* number of execute() calls started
  \* ---- run_command handler / runCommandSafe ----
  cmdIn,          \* params of the run_command call
  cmdOut,         \* its outcome: result and whether a child process was spawned
  \* ---- orchestrator run() ----
  rpc,            \* position of run(): "llm", "tools", "done", "exited"
  maxIterations,  \* AgentOrchestrator.maxIterations
  runMode,        \* safety mode of the executor owned by the orchestrator
  iterations,
  toolCallsExecuted,
  consecutiveFailures,
  lastFailedTool,
  finalResponse,
  messages,       \* the conversation built by run() (without the initial messages)
  pending,        \* tool calls of the current response not yet dispatched
  toolResults,    \* result blocks of the current iteration
  console,        \* advisory lines printed by run()
  runResult,      \* the OrchestratorResult (NoResult while running)
  hist,           \* history of dispatched calls: <<[iter, tool, success, kind]>>
  responses,      \* history of assistant responses obtained: their numbers of tool calls
  \* ---- orchestrator streamResponse() ----
  spc,            \* position: "idle", "streaming", "returned", "turn"
  sRest,          \* the part of the assistant text chatStream has not yet yielded
  stream,         \* the locals fullResponse, buffer, firstChunk, insideAction; the display
  streamFailed,   \* chatStream threw while the response was being obtained
  assistantTurn,  \* what run() made of the string streamResponse returned
  \* ---- LLM client: fetchWithRetry ----
  fpc,            \* position: "idle", "attempt", "returned", "thrown"
  attempt,        \* the loop variable of fetchWithRetry
  lastError,      \* message of the last error caught (<<>> if none)
  thrown,         \* message of the error fetchWithRetry threw: "" / "last" / "wrapped"
  attempts,       \* history: for each call of fn() its reply, and the delay slept after it
  \* ---- ChatSession (the REPL) ----
  chatMessages,   \* ChatSession.messages: the history, system message first
  chatInputs,     \* number of inputs handled
  chatEv,         \* the last input handled: history before it, the run made for it
  \* ---- slash commands ----
  envMode,        \* process.env.BAILU_MODE as /mode left it, and the calls made before
  \* ---- ToolRegistry ----
  tools,          \* the Map of the registry: name -> handler
  regEv,          \* the last operation on it: argument, outcome, Map before
  \* ---- parseToolCalls on the text of a response ----
  parseIn,        \* the content handed to parseToolCalls
  parseOut,       \* what it returned (NoParse before the call)
  \* ---- requestApproval on process.stdin ----
  stdinListeners, \* process.stdin: event -> the listeners attached, in order
  isTTY,          \* process.stdin.isTTY
  isRaw,          \* process.stdin.isRaw
  ppc,            \* "idle", "waiting" (prompt shown), "preview", "resolved", "exited"
  pev,            \* locals of requestApproval and what happened during the prompt
  \* ---- the SIGINT handler of ChatSession.start ----
  clock,          \* Date.now(), in milliseconds
  lastSigintTime, \* the closure variable (0 stands for null: both are falsy)
  sigpc,          \* "running" or "exited"
  sigHist,        \* the SIGINTs handled: when, and what the handler did
  \* ---- HistoryManager ----
  historyFile,    \* history.txt: its lines
  cmdHistory,     \* HistoryManager.history (null before the constructor ran)
  hAdded,         \* the entries on file at start and the entries add() pushed since
  hOps,           \* number of add() calls made
  \* ---- saved chat sessions ----
  chatSess,       \* the ChatSession: messages, activeFiles, sessionStats
  sessionFiles,   \* the files of the sessions directory: id -> ChatSessionData
  sessSaved,      \* history: for each file the session as it was when the file was written
  sessClock,      \* Date.now(), one tick per operation
  sessEv,         \* the last operation: save, load, turn, start
  \* ---- PasteDetector ----
  detector,       \* the PasteDetector: buffer, timer armed, the events handed to onComplete
  pdGroups,       \* history: the lines pushed, grouped by gaps shorter than the delay
  pdPushed,       \* number of lines pushed
  pdOps,          \* number of bursts and clears
  \* ---- turns of the REPL ----
  frontEnd,       \* who listens to readline: "line" (chat.ts) or "paste" (part_008)
  chunkRest,      \* lines of the chunk read from stdin that are not yet emitted
  chunksRead,     \* number of chunks read
  linesRead,      \* number of line events emitted
  replTurns           \* readline paused, the runs in progress, the changes of this.messages

execVars == <<safetyMode, fs, backups, epc, call, ev, result, nCalls>>
cmdVars  == <<cmdIn, cmdOut>>
runVars  == <<rpc, maxIterations, runMode, iterations, toolCallsExecuted,
              consecutiveFailures, lastFailedTool, finalResponse, messages,
              pending, toolResults, console, runResult, hist, responses>>
streamVars == <<spc, sRest, stream, streamFailed, assistantTurn>>
retryVars == <<fpc, attempt, lastError, thrown, attempts>>
chatVars == <<chatMessages, chatInputs, chatEv>>
modeVars == <<envMode>>
regVars  == <<tools, regEv>>
parseVars == <<parseIn, parseOut>>
promptVars == <<stdinListeners, isTTY, isRaw, ppc, pev>>
sigVars  == <<clock, lastSigintTime, sigpc, sigHist>>
histVars == <<historyFile, cmdHistory, hAdded, hOps>>
sessVars == <<chatSess, sessionFiles, sessSaved, sessClock, sessEv>>
pasteVars == <<detector, pdGroups, pdPushed, pdOps>>
turnVars == <<frontEnd, chunkRest, chunksRead, linesRead, replTurns>>
moreVars == <<modeVars, regVars, parseVars, promptVars, sigVars, histVars, sessVars, pasteVars, turnVars>>
sideVars == <<streamVars, retryVars, chatVars, moreVars>>
\* what the slash commands leave alone
coreVars  == <<execVars, cmdVars, runVars, streamVars, retryVars, chatVars>>
modeFrame == <<coreVars, regVars, parseVars, promptVars, sigVars, histVars, sessVars, pasteVars, turnVars>>
regFrame  == <<coreVars, modeVars, parseVars, promptVars, sigVars, histVars, sessVars, pasteVars, turnVars>>
parseFrame == <<coreVars, modeVars, regVars, promptVars, sigVars, histVars, sessVars, pasteVars, turnVars>>
promptFrame == <<coreVars, modeVars, regVars, parseVars, sigVars, histVars, sessVars, pasteVars, turnVars>>
sigFrame  == <<coreVars, modeVars, regVars, parseVars, promptVars, histVars, sessVars, pasteVars, turnVars>>
histFrame == <<coreVars, modeVars, regVars, parseVars, promptVars, sigVars, sessVars, pasteVars, turnVars>>
sessFrame == <<coreVars, modeVars, regVars, parseVars, promptVars, sigVars, histVars, pasteVars, turnVars>>
pasteFrame == <<coreVars, modeVars, regVars, parseVars, promptVars, sigVars, histVars, sessVars, turnVars>>
turnFrame == <<coreVars, modeVars, regVars, parseVars, promptVars, sigVars, histVars, sessVars, pasteVars>>
vars     == <<execVars, cmdVars, runVars, sideVars>>

-----------------------------------------------------------------------------
(* Text helpers: JavaScript String methods on character sequences.          *)

Whitespace == {" ", "\t", "\n"}

startsWith(s, p) == Len(p) <= Len(s) /\ SubSeq(s, 1, Len(p)) = p

includes(s, p) == \E i \in 1..(Len(s) - Len(p) + 1) : SubSeq(s, i, i + Len(p) - 1) = p

RECURSIVE trimStart(_)
trimStart(s) == IF s # <<>> /\ Head(s) \in Whitespace THEN trimStart(Tail(s)) ELSE s

RECURSIVE trimEnd(_)
trimEnd(s) ==
  IF s # <<>> /\ s[Len(s)] \in Whitespace THEN trimEnd(SubSeq(s, 1, Len(s) - 1)) ELSE s

trim(s) == trimEnd(trimStart(s))

RECURSIVE Concat(_)
Concat(ss) == IF ss = <<>> THEN <<>> ELSE Head(ss) \o Concat(Tail(ss))

\* s.split(sep) for a one-character separator
RECURSIVE split(_, _)
split(s, sep) ==
  IF \A i \in 1..Len(s) : s[i] # sep THEN <<s>>
  ELSE LET i == CHOOSE k \in 1..Len(s) : s[k] = sep /\ \A j \in 1..(k - 1) : s[j] # sep
       IN  <<SubSeq(s, 1, i - 1)>> \o split(SubSeq(s, i + 1, Len(s)), sep)

\* parts.join(sep)
RECURSIVE join(_, _)
join(parts, sep) ==
  IF parts = <<>> THEN <<>>
  ELSE IF Len(parts) = 1 THEN parts[1]
  ELSE parts[1] \o sep \o join(Tail(parts), sep)

-----------------------------------------------------------------------------
(* Paths: node's path.isAbsolute, path.normalize and path.resolve (POSIX). *)

isAbsolute(p) == p # <<>> /\ p[1] = "/"

\* the segments of a path after "." and ".." have been resolved
RECURSIVE normSegments(_, _)
normSegments(segs, acc) ==
  IF segs = <<>> THEN acc
  ELSE LET s == Head(segs) IN
       IF s = <<>> \/ s = <<".">> THEN normSegments(Tail(segs), acc)
       ELSE IF s = <<".", ".">>
            THEN normSegments(Tail(segs),
                              IF acc = <<>> THEN acc ELSE SubSeq(acc, 1, Len(acc) - 1))
            ELSE normSegments(Tail(segs), Append(acc, s))

\* path.normalize of an absolute path (no trailing slash in the inputs used)
normalizeAbs(p) == <<"/">> \o join(normSegments(split(p, "/"), <<>>), <<"/">>)

\* path.resolve(base, p) for an absolute base
resolve(base, p) ==
  IF isAbsolute(p) THEN normalizeAbs(p) ELSE normalizeAbs(base \o <<"/">> \o p)

\* process.cwd(), which is also ToolExecutionContext.workspaceRoot
workspaceRoot == <<"/", "w">>

\* ground truth: q (normalized, absolute) is workspaceRoot or lies below it
isDescendant(q) ==
  q = workspaceRoot \/ startsWith(q, workspaceRoot \o <<"/">>)

-----------------------------------------------------------------------------
(* Values of tool-call parameters, as the parser produces them: a JavaScript *)
(* type and the source text.  An array's text is its items joined by ",".    *)

Str(t)   == [ty |-> "string",  v |-> t]
Num(t)   == [ty |-> "number",  v |-> t]
Bool(t)  == [ty |-> "boolean", v |-> t]
Arr(t)   == [ty |-> "array",   v |-> t]

TRUE_  == <<"t", "r", "u", "e">>
FALSE_ == <<"f", "a", "l", "s", "e">>

\* `name in params`
has(params, name) == name \in DOMAIN params

\* JavaScript truthiness of a value
params_truthy(val) ==
  CASE val.ty = "string"  -> val.v # <<>>
    [] val.ty = "number"  -> val.v # <<"0">>
    [] val.ty = "boolean" -> val.v = <<"t", "r", "u", "e">>
    [] OTHER -> TRUE

\* the numeric value of the number texts the model uses
numberOf(t) == IF t = <<"0">> THEN 0 ELSE IF t = <<"5">> THEN 5 ELSE 42

NoResult == [success |-> FALSE, kind |-> "none"]
Ok(kind)   == [success |-> TRUE,  kind |-> kind]
Fail(kind) == [success |-> FALSE, kind |-> kind]

-----------------------------------------------------------------------------
(* run_command: the safety policy (getDefaultPolicy, isCommandAllowed), the  *)
(* runner (runCommandSafe) and the tool handler.                             *)

W_rm   == <<"r", "m">>
W_rf   == <<"-", "r", "f">>
W_ls   == <<"l", "s">>
W_su   == <<"s", "u">>
W_sudo == <<"s", "u", "d", "o">>
SP     == <<" ">>
TAB    == <<"\t">>

\* policy.blockedCommands: the entries of getDefaultPolicy() that can be
\* written with the words above ("rm", "rm -rf", "su", "sudo")
blockedCommands == {W_rm, W_rm \o SP \o W_rf, W_su, W_sudo}

\* policy.allowedCommands is not set by getDefaultPolicy()
allowedCommands == {}

isCommandAllowed(command) ==
  IF \E banned \in blockedCommands :
        command = banned \/ startsWith(command, banned \o SP)
  THEN FALSE
  ELSE IF allowedCommands # {}
       THEN \E allowed \in allowedCommands :
               command = allowed \/ startsWith(command, allowed \o SP)
       ELSE TRUE

\* outcomes of the child process started by exec()
ChildOutcomes == {"exit0", "exit1", "killed", "spawnError"}

\* runCommandSafe(cwd, command, args, policy): "rejected" stands for a rejected
\* promise (caught by the handler); otherwise the CommandResult
runCommandSafe(command, args, outcome) ==
  LET full == IF Len(args) > 0 THEN command \o SP \o join(args, SP) ELSE command
  IN  IF ~isCommandAllowed(full)
      THEN [rejected |-> TRUE, blocked |-> TRUE, spawned |-> FALSE, full |-> full,
            exitCode |-> 0, timedOut |-> FALSE]
      ELSE IF outcome = "spawnError"
      THEN [rejected |-> TRUE, blocked |-> FALSE, spawned |-> TRUE, full |-> full,
            exitCode |-> 0, timedOut |-> FALSE]
      ELSE \* exitCode: error?.code ?? 0 ; a child killed on timeout has code null
           [rejected |-> FALSE, blocked |-> FALSE, spawned |-> TRUE, full |-> full,
            exitCode |-> IF outcome = "exit1" THEN 1 ELSE 0,
            timedOut |-> (outcome = "killed")]

\* runCommandTool.handler(params); the child's behaviour is `outcome`
runCommandHandler(params, outcome) ==
  LET NoSpawn(kind) == [result |-> Fail(kind), spawned |-> FALSE, full |-> <<>>,
                        timedOut |-> FALSE]
  IN
  IF ~has(params, "command") \/ params["command"].ty # "string"
     \/ trim(params["command"].v) = <<>>
  THEN NoSpawn("invalid-command")
  ELSE IF has(params, "args") /\ params["args"].ty # "array"
  THEN NoSpawn("invalid-args")
  ELSE IF has(params, "timeout")
          /\ (params["timeout"].ty # "number" \/ numberOf(params["timeout"].v) <= 0)
  THEN NoSpawn("invalid-timeout")
  ELSE LET command == trim(params["command"].v)
           args    == IF has(params, "args") /\ params["args"].v # <<>>
                      THEN split(params["args"].v, ",") ELSE <<>>
           r       == runCommandSafe(command, args, outcome)
       IN  IF r.rejected
           THEN [result |-> Fail(IF r.blocked THEN "blocked" ELSE "exec-error"),
                 spawned |-> r.spawned, full |-> r.full, timedOut |-> FALSE]
           ELSE [result |-> IF r.exitCode = 0 THEN Ok("command-ok")
                                              ELSE Fail("command-failed"),
                 spawned |-> r.spawned, full |-> r.full, timedOut |-> r.timedOut]

\* ---- inputs of the run_command specification ----
MaxCmdWords == 3

CmdWords == {W_rm, W_rf, W_ls, W_su, W_sudo, SP, TAB}

CmdTexts == { Concat(ws) : ws \in UNION { [1..n -> CmdWords] : n \in 1..MaxCmdWords } }

CmdParams ==
  LET commands == { Str(t) : t \in CmdTexts } \cup {Num(<<"4", "2">>)}
      argsSet  == { Arr(W_rf), Arr(W_ls \o <<",">> \o W_rf), Str(W_rf) }
      timeouts == { Num(<<"5">>), Num(<<"0">>) }
  IN  { [x \in {"command"} |-> c] : c \in commands }
      \cup { [x \in {"command", "args"} |-> IF x = "command" THEN c ELSE a] :
             c \in commands, a \in argsSet }
      \cup { [x \in {"command", "timeout"} |-> IF x = "command" THEN c ELSE t] :
             c \in { Str(W_ls), Str(W_rm \o SP \o W_ls) }, t \in timeouts }
      \cup { [x \in {"args"} |-> Arr(W_rf)] }

NoCmd == [x \in {} |-> Str(<<>>)]
NoOut == [result |-> NoResult, spawned |-> FALSE, full |-> <<>>, timedOut |-> FALSE]

InitCmd == cmdIn = NoCmd /\ cmdOut = NoOut

\* one call of the run_command (or exec) handler
RunCommand(params, outcome) ==
  /\ cmdIn = NoCmd
  /\ cmdIn' = params
  /\ cmdOut' = runCommandHandler(params, outcome)

-----------------------------------------------------------------------------
(* The file system and the file tools: read_file, list_directory,            *)
(* write_file, apply_diff.  A handler returns its ToolResult, the file       *)
(* system it leaves and the file-system operations it performed.             *)

NL == "\n"

\* the content (sequence of lines) of a text
contentOf(text) == split(text, NL)

\* the empty file
EmptyContent == <<<<>>>>

\* path.dirname of a normalized absolute path
dirname(p) ==
  LET segs == normSegments(split(p, "/"), <<>>)
  IN  IF Len(segs) <= 1 THEN <<"/">>
      ELSE <<"/">> \o join(SubSeq(segs, 1, Len(segs) - 1), <<"/">>)

exists(f, p)  == p \in DOMAIN f.files
writeTo(f, p, c) ==
  [f EXCEPT !.files = [q \in DOMAIN f.files \cup {p} |-> IF q = p THEN c ELSE f.files[q]]]
mkdirp(f, d) == [f EXCEPT !.dirs = f.dirs \cup {d}]

Op(kind, p) == [op |-> kind, path |-> p]

\* fs resolves a relative path against process.cwd()
fsPath(p) == resolve(workspaceRoot, p)

DOTDOT == <<".", ".">>

\* the patterns of the "suspicious" lists: '../', '..\', '%2e%2e'
suspicious == { <<".", ".", "/">>, <<".", ".", "\\">>,
                <<"%", "2", "e", "%", "2", "e">> }

\* readFileTool.handler
readFileHandler(params, f) ==
  IF ~has(params, "path") \/ params["path"].ty # "string"
  THEN \* filePath.includes is not a function: TypeError, caught by the handler
       [result |-> Fail("read-error"), fs |-> f, ops |-> {}]
  ELSE LET filePath == params["path"].v IN
       IF includes(filePath, DOTDOT) /\ ~isAbsolute(filePath)
       THEN [result |-> Fail("dotdot"), fs |-> f, ops |-> {}]
       ELSE LET q == fsPath(filePath) IN
            [result |-> IF exists(f, q) THEN Ok("read") ELSE Fail("read-error"),
             fs |-> f, ops |-> {Op("read", q)}]

\* listDirectoryTool.handler (the listing itself is not modelled, only its target)
listDirectoryHandler(params, f) ==
  IF has(params, "path") /\ params["path"].ty # "string"
  THEN [result |-> Fail("list-error"), fs |-> f, ops |-> {}]
  ELSE LET dirPath == IF has(params, "path") /\ params["path"].v # <<>>
                      THEN params["path"].v ELSE <<".">>
       IN  IF includes(dirPath, DOTDOT) /\ ~isAbsolute(dirPath)
           THEN [result |-> Fail("dotdot"), fs |-> f, ops |-> {}]
           ELSE LET q == fsPath(dirPath) IN
                [result |-> IF q \in f.dirs THEN Ok("listed") ELSE Fail("list-error"),
                 fs |-> f, ops |-> {Op("list", q)}]

\* the checks made on absolutePath and inputPath
pathCheckOf(inputPath, absolutePath) ==
  IF ~startsWith(absolutePath, workspaceRoot)
  THEN [ok |-> FALSE, kind |-> "path-violation", abs |-> absolutePath]
  ELSE IF \E pat \in suspicious : includes(inputPath, pat)
  THEN [ok |-> FALSE, kind |-> "path-suspicious", abs |-> absolutePath]
  ELSE [ok |-> TRUE, kind |-> "ok", abs |-> absolutePath]

\* the path checks shared by write_file and apply_diff (handler side):
\* "ok" with the absolute path, or the failure
handlerPathCheck(inputPath) ==
  pathCheckOf(inputPath, IF isAbsolute(inputPath) THEN normalizeAbs(inputPath)
                         ELSE resolve(workspaceRoot, inputPath))

\* outcomes of the operating system for a write
IoOutcomes == {"ok", "writeFail"}

\* writeFileTool.handler from the directory handling on: absolutePath has
\* passed the path checks, dir is its directory
writeFileTo(f, io, content, createDirs, absolutePath, dir) ==
  IF ~createDirs /\ dir \notin f.dirs
  THEN [result |-> Fail("no-dir"), fs |-> f,
        ops |-> {Op("access", absolutePath), Op("access", dir)}]
  ELSE LET f1 == IF createDirs THEN mkdirp(f, dir) ELSE f
           o1 == {Op("access", absolutePath)}
                   \cup (IF createDirs THEN {Op("mkdir", dir)} ELSE {Op("access", dir)})
       IN  IF io = "writeFail"
           THEN [result |-> Fail("write-error"), fs |-> f1,
                 ops |-> o1 \cup {Op("write", absolutePath)}]
           ELSE [result |-> Ok("written"),
                 fs |-> writeTo(f1, absolutePath, contentOf(content)),
                 ops |-> o1 \cup {Op("write", absolutePath)}]

\* writeFileTool.handler from the path checks on
writeFileChecked(f, io, content, createDirs, chk) ==
  IF ~chk.ok THEN [result |-> Fail(chk.kind), fs |-> f, ops |-> {}]
  ELSE writeFileTo(f, io, content, createDirs, chk.abs, dirname(chk.abs))

\* writeFileTool.handler
writeFileHandler(params, f, io) ==
  IF ~has(params, "path") \/ params["path"].ty # "string" \/ trim(params["path"].v) = <<>>
  THEN [result |-> Fail("invalid-path"), fs |-> f, ops |-> {}]
  ELSE IF ~has(params, "content") \/ params["content"].ty # "string"
  THEN [result |-> Fail("invalid-content"), fs |-> f, ops |-> {}]
  ELSE writeFileChecked(f, io, params["content"].v,
                        ~(has(params, "create_dirs")
                          /\ params["create_dirs"] = Bool(FALSE_)),
                        handlerPathCheck(trim(params["path"].v)))

-----------------------------------------------------------------------------
(* apply_diff: the handler and applyUnifiedDiff.  Line numbers of hunk       *)
(* headers are single digits in the model.                                   *)

Digits == {"0", "1", "2", "3"}
digitVal(d) == IF d = "0" THEN 0 ELSE IF d = "1" THEN 1 ELSE IF d = "2" THEN 2 ELSE 3

AT2      == <<"@", "@">>
MINUS3   == <<"-", "-", "-">>
PLUS3    == <<"+", "+", "+">>
DevNull  == <<"-", "-", "-", " ", "/", "d", "e", "v", "/", "n", "u", "l", "l">>
DevNullA == <<"-", "-", "-", " ", "a", "/", "d", "e", "v", "/", "n", "u", "l", "l">>
BackupSuffix == <<".", "b", "a", "c", "k", "u", "p">>

\* the optional ",count" after a line number: ,?\d*
skipCount(r) ==
  IF r # <<>> /\ r[1] = ","
  THEN IF Len(r) >= 2 /\ r[2] \in Digits THEN SubSeq(r, 3, Len(r)) ELSE Tail(r)
  ELSE r

\* line.match(/@@ -(\d+),?\d* \+(\d+),?\d* @@/) for a line that starts with "@@"
hunkMatches(line) ==
  /\ startsWith(line, <<"@", "@", " ", "-">>)
  /\ Len(line) >= 5 /\ line[5] \in Digits
  /\ LET r2 == skipCount(SubSeq(line, 6, Len(line))) IN
     /\ startsWith(r2, <<" ", "+">>)
     /\ Len(r2) >= 3 /\ r2[3] \in Digits
     /\ startsWith(skipCount(SubSeq(r2, 4, Len(r2))), <<" ", "@", "@">>)

\* parseInt(match[1], 10) - 1
hunkOriginalStartOf(line) == digitVal(line[5]) - 1

\* originalLines[i] (0-based); an index past the end reads undefined, which
\* join() writes as the empty string
originalLineAt(originalLines, i) ==
  IF i >= 0 /\ i < Len(originalLines) THEN originalLines[i + 1] ELSE <<>>

\* originalLines[from .. to-1]
RECURSIVE copyLines(_, _, _)
copyLines(originalLines, from, to) ==
  IF from >= to THEN <<>>
  ELSE <<originalLineAt(originalLines, from)>> \o copyLines(originalLines, from + 1, to)

\* the loop over diffLines of applyUnifiedDiff
RECURSIVE applyDiffLines(_, _, _, _, _)
applyDiffLines(diffLines, originalLines, originalIndex, inHunk, res) ==
  IF diffLines = <<>>
  THEN res \o copyLines(originalLines, originalIndex, Len(originalLines))
  ELSE LET line == Head(diffLines)
           rest == Tail(diffLines)
       IN
       IF startsWith(line, AT2)
       THEN IF hunkMatches(line)
            THEN LET st == hunkOriginalStartOf(line)
                     ni == IF originalIndex < st THEN st ELSE originalIndex
                 IN  applyDiffLines(rest, originalLines, ni, TRUE,
                                    res \o copyLines(originalLines, originalIndex, st))
            ELSE applyDiffLines(rest, originalLines, originalIndex, inHunk, res)
       ELSE IF ~inHunk
       THEN applyDiffLines(rest, originalLines, originalIndex, inHunk, res)
       ELSE IF startsWith(line, MINUS3) \/ startsWith(line, PLUS3)
               \/ startsWith(line, <<"\\">>)
       THEN applyDiffLines(rest, originalLines, originalIndex, inHunk, res)
       ELSE IF startsWith(line, <<"+">>)
       THEN applyDiffLines(rest, originalLines, originalIndex, inHunk,
                           Append(res, Tail(line)))
       ELSE IF startsWith(line, <<"-">>)
       THEN applyDiffLines(rest, originalLines, originalIndex + 1, inHunk, res)
       ELSE IF startsWith(line, <<" ">>)
       THEN applyDiffLines(rest, originalLines, originalIndex + 1, inHunk,
                           Append(res, Tail(line)))
       ELSE applyDiffLines(rest, originalLines, originalIndex + 1, inHunk,
                           Append(res, line))

\* applyUnifiedDiff(original, diff): thrown = TRUE for the "missing hunk
\* markers" error, else the patched content (result.join("\n") split again)
applyUnifiedDiff(originalLines, diff) ==
  IF ~includes(diff, AT2) THEN [thrown |-> TRUE, lines |-> originalLines]
  ELSE LET res == applyDiffLines(split(diff, NL), originalLines, 0, FALSE, <<>>)
       IN  [thrown |-> FALSE, lines |-> IF res = <<>> THEN EmptyContent ELSE res]

\* "Calculate diff statistics" of applyDiffTool.handler: the metadata of a
\* successful result, from the content read and the content written
diffStats(original, patched) ==
  [originalLines |-> Len(original), patchedLines |-> Len(patched),
   linesAdded   |-> IF Len(patched) > Len(original)
                    THEN Len(patched) - Len(original) ELSE 0,
   linesRemoved |-> IF Len(original) > Len(patched)
                    THEN Len(original) - Len(patched) ELSE 0]

\* applyDiffTool.handler from applyUnifiedDiff on: f1 and o1 are the file
\* system and the operations after the backup step
applyDiffWrite(f1, io, filePath, dir, doBackup, o1, patched) ==
  IF patched.thrown
  THEN [result |-> Fail("diff-failed"), fs |-> f1, ops |-> o1]
  ELSE IF io = "writeFail"
  THEN [result |-> Fail(IF doBackup THEN "write-error-restored" ELSE "write-error"),
        fs |-> mkdirp(f1, dir),
        ops |-> o1 \cup {Op("mkdir", dir), Op("write", filePath)}
                   \cup (IF doBackup THEN {Op("copy", filePath)} ELSE {})]
  ELSE [result |-> Ok("patched"),
        fs |-> writeTo(mkdirp(f1, dir), filePath, patched.lines),
        ops |-> o1 \cup {Op("mkdir", dir), Op("write", filePath)}]

\* applyDiffTool.handler from the backup step on: original is the content
\* read, doBackup is (createBackup && fileExists && original)
applyDiffBackup(f, io, diffContent, filePath, original, doBackup) ==
  applyDiffWrite(IF doBackup THEN writeTo(f, filePath \o BackupSuffix, original) ELSE f,
                 io, filePath, dirname(filePath), doBackup,
                 {Op("read", filePath)}
                   \cup (IF doBackup THEN {Op("write", filePath \o BackupSuffix)} ELSE {}),
                 applyUnifiedDiff(original, diffContent))

\* applyDiffTool.handler from the read of the file on
applyDiffRead(f, io, diffContent, createBackup, filePath, fileExists) ==
  IF ~fileExists /\ ~includes(diffContent, DevNull) /\ ~includes(diffContent, DevNullA)
  THEN [result |-> Fail("not-found"), fs |-> f, ops |-> {Op("read", filePath)}]
  ELSE applyDiffBackup(f, io, diffContent, filePath,
                       IF fileExists THEN f.files[filePath] ELSE EmptyContent,
                       createBackup /\ fileExists /\ f.files[filePath] # EmptyContent)

\* applyDiffTool.handler from the format check on
applyDiffChecked(f, io, diffContent, createBackup, chk) ==
  IF ~includes(diffContent, AT2) /\ ~startsWith(diffContent, MINUS3)
  THEN [result |-> Fail("invalid-diff-format"), fs |-> f, ops |-> {}]
  ELSE IF ~chk.ok THEN [result |-> Fail(chk.kind), fs |-> f, ops |-> {}]
  ELSE applyDiffRead(f, io, diffContent, createBackup, chk.abs, exists(f, chk.abs))

\* applyDiffTool.handler
applyDiffHandler(params, f, io) ==
  IF ~has(params, "path") \/ params["path"].ty # "string" \/ trim(params["path"].v) = <<>>
  THEN [result |-> Fail("invalid-path"), fs |-> f, ops |-> {}]
  ELSE IF ~has(params, "diff") \/ params["diff"].ty # "string"
          \/ trim(params["diff"].v) = <<>>
  THEN [result |-> Fail("invalid-diff"), fs |-> f, ops |-> {}]
  ELSE applyDiffChecked(f, io, trim(params["diff"].v),
                        ~(has(params, "create_backup")
                          /\ params["create_backup"] = Bool(FALSE_)),
                        handlerPathCheck(trim(params["path"].v)))

-----------------------------------------------------------------------------
(* The tool registry (builtinTools) and the tool executor.                   *)

Param(n, t, r) == [name |-> n, type |-> t, required |-> r]

runCommandParameters ==
  << Param("command", "string", TRUE), Param("args", "array", FALSE),
     Param("cwd", "string", FALSE), Param("timeout", "number", FALSE) >>

\* the ToolDefinition of every registered tool
RegisteredTools ==
  {"read_file", "write_file", "list_directory", "run_command", "exec", "apply_diff"}

definitionOf(tool) ==
  CASE tool = "read_file" ->
         [safe |-> TRUE,
          parameters |-> << Param("path", "string", TRUE),
                            Param("encoding", "string", FALSE) >>]
    [] tool = "list_directory" ->
         [safe |-> TRUE,
          parameters |-> << Param("path", "string", FALSE),
                            Param("recursive", "boolean", FALSE),
                            Param("include_hidden", "boolean", FALSE) >>]
    [] tool = "write_file" ->
         [safe |-> FALSE,
          parameters |-> << Param("path", "string", TRUE),
                            Param("content", "string", TRUE),
                            Param("create_dirs", "boolean", FALSE) >>]
    [] tool = "apply_diff" ->
         [safe |-> FALSE,
          parameters |-> << Param("path", "string", TRUE),
                            Param("diff", "string", TRUE),
                            Param("create_backup", "boolean", FALSE) >>]
    [] OTHER -> [safe |-> FALSE, parameters |-> runCommandParameters]

\* ToolExecutor.validateParams: TRUE when it returns null (no error)
validateParams(toolCall, def) ==
  \A i \in 1..Len(def.parameters) :
     def.parameters[i].required => has(toolCall.params, def.parameters[i].name)

\* the "suspicious" list of ToolExecutor.validateFilePath: '../', '..\\\\', '%2e%2e'
executorSuspicious == { <<".", ".", "/">>, <<".", ".", "\\", "\\">>,
                        <<"%", "2", "e", "%", "2", "e">> }

\* the checks of validateFilePath on absolutePath and filePath
validationOf(filePath, absolutePath) ==
  IF ~startsWith(absolutePath, workspaceRoot)
  THEN [valid |-> FALSE, sanitized |-> absolutePath]
  ELSE IF \E pat \in executorSuspicious : includes(filePath, pat)
  THEN [valid |-> FALSE, sanitized |-> absolutePath]
  ELSE [valid |-> TRUE, sanitized |-> absolutePath]

\* ToolExecutor.validateFilePath (filePath is a non-empty string)
validateFilePath(filePath) == validationOf(filePath, resolve(workspaceRoot, filePath))

\* BackupRecord history kept per file (N most recent)
MaxBackups == 5

\* ErrorRecoveryManager.createBackup: snapshot of an existing file
createBackup(b, f, p) ==
  IF ~exists(f, p) THEN b
  ELSE LET old == IF p \in DOMAIN b THEN b[p] ELSE <<>>
           new == Append(old, f.files[p])
           cut == IF Len(new) > MaxBackups THEN SubSeq(new, 2, Len(new)) ELSE new
       IN  [q \in DOMAIN b \cup {p} |-> IF q = p THEN cut ELSE b[q]]

\* tool.handler(toolCall.params)
handlerOf(toolCall, f, io, co) ==
  CASE toolCall.tool = "read_file"      -> readFileHandler(toolCall.params, f)
    [] toolCall.tool = "list_directory" -> listDirectoryHandler(toolCall.params, f)
    [] toolCall.tool = "write_file"     -> writeFileHandler(toolCall.params, f, io)
    [] toolCall.tool = "apply_diff"     -> applyDiffHandler(toolCall.params, f, io)
    [] OTHER -> [result |-> runCommandHandler(toolCall.params, co).result,
                 fs |-> f, ops |-> {}]

\* toolCall.params.path || toolCall.params.file, when it is a non-empty string
backupTargetOf(toolCall) ==
  IF has(toolCall.params, "path") /\ params_truthy(toolCall.params["path"])
  THEN toolCall.params["path"]
  ELSE IF has(toolCall.params, "file") THEN toolCall.params["file"]
  ELSE Str(<<>>)

\* the try block of execute() given the validation `val` of the target path
\* (for a writing tool with a path: `needs`) and the outcome `h` of the handler
tryBlock(toolCall, f, b, needs, val, h, spawned) ==
  IF needs /\ ~val.valid
  THEN [result |-> Fail("path-violation"), fs |-> f, backups |-> b,
        handler |-> 0, backupCalls |-> {}, ops |-> {}, spawned |-> FALSE,
        rollbackAsked |-> FALSE]
  ELSE [result |-> h.result, fs |-> h.fs,
        backups |-> IF needs THEN createBackup(b, f, val.sanitized) ELSE b,
        handler |-> 1,
        backupCalls |-> IF needs THEN {val.sanitized} ELSE {},
        ops |-> h.ops,
        spawned |-> spawned,
        \* `return result`: askForRollback is called from the catch block
        \* only, and the handlers return their failures
        rollbackAsked |-> FALSE]

\* the try block of execute(): path validation and backup for the writing
\* tools, then the handler
runTool(toolCall, f, b, io, co) ==
  tryBlock(toolCall, f, b,
           /\ toolCall.tool \in {"write_file", "apply_diff"}
           /\ params_truthy(backupTargetOf(toolCall))
           /\ backupTargetOf(toolCall).ty = "string",
           validateFilePath(backupTargetOf(toolCall).v),
           handlerOf(toolCall, f, io, co),
           /\ toolCall.tool \in {"run_command", "exec"}
           /\ runCommandHandler(toolCall.params, co).spawned)

\* a faulty variant of modeBranch: dry-run simulates only the tools not marked
\* safe and lets the safe ones run
modeBranch_DryRunUnsafeOnly(mode, safe) ==
  IF mode = "review" /\ ~safe THEN "prompt"
  ELSE IF mode = "dry-run" /\ ~safe THEN "simulate"
  ELSE "run"

\* which way execute() goes once the tool is known and its params validated
modeBranch(mode, safe) ==
  IF mode = "review" /\ ~safe THEN "prompt"
  ELSE IF mode = "dry-run" THEN "simulate"
  ELSE "run"

\* requestApproval: the answers a user can type (trimmed, lower-cased)
Answers == {"y", "yes", "n", "no", "d", "diff", "q", "quit", "", "maybe"}

\* a faulty variant of approves: everything but n/no is taken as approval
approves_AllButNo(answer) == answer \notin {"n", "no"}

\* resolve(answer === "y" || answer === "yes")
approves(answer) == answer = "y" \/ answer = "yes"

isQuit(answer) == answer = "q" \/ answer = "quit"
isDiff(answer) == answer = "d" \/ answer = "diff"

\* showDiffPreview reads the file named by params.path
previewOps(toolCall) ==
  IF has(toolCall.params, "path") /\ toolCall.params["path"].ty = "string"
     /\ toolCall.params["path"].v # <<>>
  THEN {Op("read", fsPath(toolCall.params["path"].v))}
  ELSE {}

\* the preview shown on entry of requestApproval (write_file only)
promptOps(toolCall) ==
  IF toolCall.tool = "write_file" THEN previewOps(toolCall) ELSE {}

SafetyModes == {"dry-run", "review", "auto-apply"}

NoParams == [x \in {} |-> Str(<<>>)]
NoCall   == [tool |-> "", params |-> NoParams]
NoBackups == [x \in {} |-> <<>>]

newEv(f, b) == [prompts |-> 0, approved |-> FALSE, answered |-> FALSE, answer |-> "",
             handler |-> 0, backupCalls |-> {}, ops |-> {}, spawned |-> FALSE,
             pre |-> f, preBackups |-> b, rollbackAsked |-> FALSE]

\* ---- inputs of the executor specification ----
MaxCalls   == 1
MaxPrompts == 2

P1(n, v) == [x \in {n} |-> v]
P2(n1, v1, n2, v2) == [x \in {n1, n2} |-> IF x = n1 THEN v1 ELSE v2]
P3(n1, v1, n2, v2, n3, v3) ==
  [x \in {n1, n2, n3} |-> IF x = n1 THEN v1 ELSE IF x = n2 THEN v2 ELSE v3]
Call(tool, params) == [tool |-> tool, params |-> params]

F_a     == <<"/", "w", "/", "a">>          \* a file of the workspace
F_out   == <<"/", "e">>                    \* a file outside the workspace
F_sib   == <<"/", "w", "2", "/", "a">>     \* a file of a sibling directory /w2

PathTexts ==
  { <<"a">>, <<" ", "a">>, F_a, F_out, F_sib,
    <<".", ".", "/", "e">>, <<"/", "w", "/", ".", ".", "/", "e">>,
    <<"b">>, <<"s", "/", "b">> }

TextX == <<"x", "\n">>
TextY == <<"y", "\n">>

Hunk11 == <<"@", "@", " ", "-", "1", " ", "+", "1", " ", "@", "@">>
Hunk00 == <<"@", "@", " ", "-", "0", ",", "0", " ", "+", "1", " ", "@", "@">>

DiffTexts ==
  { Hunk11 \o <<NL, "-", "x", NL, "+", "y">>,          \* replace x by y
    Hunk11 \o <<NL, " ", "x", NL, "+", "y">>,          \* add y after x
    Hunk11,                                            \* a header and no change
    MINUS3 \o <<" ", "a", NL>> \o PLUS3 \o <<" ", "b">>,   \* file marks, no hunk
    DevNull \o <<NL>> \o Hunk00 \o <<NL, "+", "x">>,   \* create a new file
    <<"f", "o", "o">>,                                 \* not a diff
    <<>> }                                             \* the empty diff

DiffReplace == Hunk11 \o <<NL, "-", "x", NL, "+", "y">>            \* replace x by y
DiffCreate  == DevNull \o <<NL>> \o Hunk00 \o <<NL, "+", "x">>     \* create a new file

ToolCalls ==
  { Call("read_file", P1("path", Str(t))) : t \in PathTexts }
  \cup { Call("read_file", P1("path", Num(<<"4", "2">>))), Call("read_file", NoParams) }
  \cup { Call("list_directory", P1("path", Str(t))) :
           t \in { <<".">>, <<"/", "w">>, <<"/">>, <<".", ".">>, <<"a">> } }
  \cup { Call("list_directory", NoParams) }
  \cup { Call("write_file", P2("path", Str(t), "content", Str(TextY))) : t \in PathTexts }
  \cup { Call("write_file", P2("path", Str(t), "content", c)) :
           t \in { <<"a">>, <<"b">> }, c \in { Str(<<>>), Num(<<"4", "2">>) } }
  \cup { Call("write_file", P3("path", Str(<<"s", "/", "b">>), "content", Str(TextY),
                               "create_dirs", d)) :
           d \in { Bool(FALSE_), Str(<<"n", "o">>) } }
  \cup { Call("write_file", P1("path", Str(<<"a">>))) }
  \cup { Call("apply_diff", P2("path", Str(<<"a">>), "diff", Str(d))) : d \in DiffTexts }
  \cup { Call("apply_diff", P2("path", Str(t), "diff", Str(d))) :
           t \in { <<" ", "a">>, F_sib, F_out, <<"b">>, <<".", ".", "/", "e">> },
           d \in { DiffReplace, DiffCreate } }
  \cup { Call("apply_diff", P3("path", Str(<<"a">>), "diff", Str(DiffReplace),
                               "create_backup", Bool(FALSE_))) }
  \cup { Call(tool, P1("command", Str(t))) :
           tool \in {"run_command", "exec"},
           t \in { W_ls, W_rm \o SP \o W_rf, W_rm \o TAB \o W_rf } }
  \cup { Call("run_command", NoParams), Call("nope", NoParams) }

IoFor(toolCall) ==
  IF toolCall.tool \in {"write_file", "apply_diff"} THEN IoOutcomes ELSE {"ok"}
CoFor(toolCall) ==
  IF toolCall.tool \in {"run_command", "exec"} THEN ChildOutcomes ELSE {"exit0"}

InitialDirs == { <<"/">>, <<"/", "w">>, <<"/", "w", "2">> }

\* the workspace holds the file a, empty or not, and possibly a.backup left by
\* an earlier apply_diff

InitExec ==
  /\ safetyMode \in SafetyModes
  /\ \E c \in {EmptyContent, contentOf(TextX)}, old \in {{}, {F_a \o BackupSuffix}} :
        fs = [files |-> [q \in {F_a, F_out, F_sib} \cup old |->
                           IF q = F_a THEN c
                           ELSE IF q \in old THEN contentOf(TextY)
                           ELSE contentOf(TextX)],
              dirs  |-> InitialDirs]
  /\ backups = NoBackups
  /\ epc = "idle"
  /\ call = NoCall
  /\ ev = newEv(fs, backups)
  /\ result = NoResult
  /\ nCalls = 0

\* the outcome r of the try block stored as the outcome of execute()
finishTry(e, r) ==
  /\ result' = r.result
  /\ fs' = r.fs
  /\ backups' = r.backups
  /\ ev' = [e EXCEPT !.handler = r.handler, !.backupCalls = r.backupCalls,
                     !.ops = e.ops \cup r.ops, !.spawned = r.spawned,
                     !.rollbackAsked = r.rollbackAsked]
  /\ epc' = "idle"

finishRun(toolCall, e, io, co) == finishTry(e, runTool(toolCall, fs, backups, io, co))

finishWith(res, e) ==
  /\ result' = res
  /\ ev' = e
  /\ epc' = "idle"
  /\ UNCHANGED <<fs, backups>>

\* ToolExecutor.execute(toolCall), up to its return or to the approval prompt
Execute(toolCall, io, co) ==
  /\ epc = "idle"
  /\ nCalls < MaxCalls
  /\ nCalls' = nCalls + 1
  /\ call' = toolCall
  /\ LET e == newEv(fs, backups) IN
     IF toolCall.tool \notin RegisteredTools
     THEN finishWith(Fail("unknown-tool"), e)
     ELSE IF ~validateParams(toolCall, definitionOf(toolCall.tool))
     THEN finishWith(Fail("invalid-params"), e)
     ELSE LET branch == modeBranch(safetyMode, definitionOf(toolCall.tool).safe) IN
          IF branch = "prompt"
          THEN /\ epc' = "prompt"
               /\ result' = NoResult
               /\ ev' = [e EXCEPT !.prompts = 1, !.ops = promptOps(toolCall)]
               /\ UNCHANGED <<fs, backups>>
          ELSE IF branch = "simulate"
          THEN finishWith(Ok("simulated"), e)
          ELSE finishRun(toolCall, e, io, co)
  /\ UNCHANGED <<safetyMode, cmdVars, runVars, sideVars>>

\* the user's answer to the approval prompt (onData of requestApproval)
Answer(answer, io, co) ==
  /\ epc = "prompt"
  /\ LET e == [ev EXCEPT !.answered = TRUE, !.answer = answer,
                         !.approved = (answer \in {"y", "yes"})] IN
     IF isQuit(answer)
     THEN \* process.exit(0)
          /\ epc' = "exited"
          /\ ev' = e
          /\ UNCHANGED <<fs, backups, result>>
     ELSE IF isDiff(answer)
     THEN \* the detailed diff, then requestApproval again
          /\ ev.prompts < MaxPrompts
          /\ ev' = [ev EXCEPT !.prompts = ev.prompts + 1,
                              !.ops = ev.ops \cup previewOps(call) \cup promptOps(call)]
          /\ UNCHANGED <<fs, backups, result, epc>>
     ELSE IF approves(answer)
     THEN finishRun(call, e, io, co)
     ELSE finishWith(Fail("user-cancelled"), e)
  /\ UNCHANGED <<safetyMode, call, nCalls, cmdVars, runVars, sideVars>>

-----------------------------------------------------------------------------
(* AgentOrchestrator: the constructor, autoCompressMessages and run().       *)
(* A response of the LLM is given by what parseToolCalls makes of it: the    *)
(* sequence of tool names called and the text left (named by its iteration). *)

DefaultMaxIterations == 100
CompressThreshold    == 6400     \* maxTokens * 0.8 with maxTokens = 8000
CompressMinLength    == 10
KeepRecent           == 6
FailureLimit         == 3

\* ---- bounds and inputs of the run() specification ----
MaxIter          == 3     \* iterations explored
MaxInputs        == 3     \* inputs the REPL handles
MaxTurns         == 2     \* iterations with tool calls in a run made by the REPL
MaxCallsPerTurn  == 3     \* tool calls in one response
MaxToolCalls     == 3     \* tool calls dispatched in one run
OptMaxIterations == 2     \* a value given as options.maxIterations
LongHistory      == 10    \* length of a long initial conversation
HeavyTokens      == 7000  \* token estimate of a long message

Msg(role, kind, iter, tok, blocks) ==
  [role |-> role, kind |-> kind, iter |-> iter, tok |-> tok, blocks |-> blocks]

\* the section injectToolDefinitions appends to the system message; the
\* sections appended to a message's text are kept in its `blocks`
DocsSection == [tool |-> "", success |-> TRUE, kind |-> "tool-docs"]

\* injectToolDefinitions(systemContent, tools): `${systemContent} ...appendix`
injectToolDefinitions(systemMsg) ==
  [systemMsg EXCEPT !.blocks = Append(@, DocsSection)]

\* number of tool-documentation appendices in a message
docsCount(msg) == Cardinality({ k \in DOMAIN msg.blocks : msg.blocks[k] = DocsSection })

\* the entry of run(): messages = [...initialMessages], then the appendix is
\* written into messages[0] when it is the system message (the registry of
\* built-in tools is never empty)
runEntry(msgs) ==
  IF msgs # <<>> /\ msgs[1].role = "system"
  THEN [msgs EXCEPT ![1] = injectToolDefinitions(@)]
  ELSE msgs

\* the initial messages handed to run(): system message first
initialMessages(n, heavy) ==
  [i \in 1..n |-> IF i = 1 THEN Msg("system", "system", 0, 1, <<>>)
                  ELSE Msg(IF (n - i) % 2 = 0 THEN "user" ELSE "assistant", "initial", i,
                           IF heavy /\ i = 2 THEN HeavyTokens ELSE 1, <<>>)]

RECURSIVE sumTokens(_)
sumTokens(msgs) == IF msgs = <<>> THEN 0 ELSE Head(msgs).tok + sumTokens(Tail(msgs))

\* estimateTokens(messages)
estimateTokens(msgs) == sumTokens(msgs)

\* a faulty variant of autoCompressMessages: only the last five messages are kept
autoCompressMessages_KeepFive(msgs) ==
  IF estimateTokens(msgs) > CompressThreshold /\ Len(msgs) > CompressMinLength
  THEN LET recentMessages  == SubSeq(msgs, Len(msgs) - KeepRecent + 2, Len(msgs))
           compressedCount == Len(msgs) - Len(recentMessages) - 1
       IN  <<msgs[1], Msg("system", "marker", compressedCount, 1, <<>>)>> \o recentMessages
  ELSE msgs

\* autoCompressMessages(messages)
autoCompressMessages(msgs) ==
  IF estimateTokens(msgs) > CompressThreshold /\ Len(msgs) > CompressMinLength
  THEN LET recentMessages  == SubSeq(msgs, Len(msgs) - KeepRecent + 1, Len(msgs))
           compressedCount == Len(msgs) - Len(recentMessages) - 1
       IN  <<msgs[1], Msg("system", "marker", compressedCount, 1, <<>>)>> \o recentMessages
  ELSE msgs

RunTools == {"read_file", "write_file", "nope"}

\* how the invokes of a response are laid out in <action> blocks
Layouts == {"one-block", "block-per-call"}

\* the <action> blocks of a response, each the sequence of its <invoke>s
actionBlocksOf(response) ==
  IF response.calls = <<>> THEN <<>>
  ELSE IF response.layout = "one-block" THEN <<response.calls>>
  ELSE [i \in 1..Len(response.calls) |-> <<response.calls[i]>>]

\* parseToolCalls(content).toolCalls: for each action match in document order,
\* for each invoke match in it, toolCalls.push
parseToolCalls(response) == Concat(actionBlocksOf(response))

\* an invoke as it stands in the text of the assistant message
CallBlock(tool) == [tool |-> tool, success |-> TRUE, kind |-> "invoke"]

\* the invokes in the text of a response, in document order
invokesOf(toolCalls) == [i \in 1..Len(toolCalls) |-> CallBlock(toolCalls[i])]

\* a faulty variant of nextCall: the last call is taken first
nextCall_Last(calls) == calls[Len(calls)]

\* for (const toolCall of toolCalls): the call the loop takes next
nextCall(calls) == Head(calls)

\* what execute() can come to for a call of `tool` under `mode`
ExecOutcomes(tool, mode) ==
  IF tool \notin RegisteredTools THEN {"unknown"}
  ELSE {"invalid"}
       \cup (IF modeBranch(mode, definitionOf(tool).safe) = "prompt"
             THEN {"cancelled", "quit"} ELSE {})
       \cup (IF modeBranch(mode, definitionOf(tool).safe) = "simulate"
             THEN {"ok"} ELSE {"ok", "failed", "threw"})

\* the ToolResult execute() returns: a thrown handler error is caught and
\* turned into a failed result
executeResult(outcome) ==
  IF outcome = "ok" THEN Ok("ok") ELSE Fail(outcome)

Block(tool, res) == [tool |-> tool, success |-> res.success, kind |-> res.kind]

\* a faulty variant of OrchestratorResult: the response that carried no tool
\* call is not counted as an iteration
OrchestratorResult_FinalNotCounted(success, fr, it, n, err, msgs) ==
  [success |-> success, finalResponse |-> fr,
   iterations |-> IF success /\ it > 0 THEN it - 1 ELSE it,
   toolCallsExecuted |-> n, error |-> err, messages |-> Tail(msgs)]

OrchestratorResult(success, fr, it, n, err, msgs) ==
  [success |-> success, finalResponse |-> fr, iterations |-> it,
   toolCallsExecuted |-> n, error |-> err, messages |-> Tail(msgs)]

NoRunResult == [success |-> FALSE, finalResponse |-> <<>>, iterations |-> 0,
                toolCallsExecuted |-> 0, error |-> "running", messages |-> <<>>]

TextPart(iter)     == [part |-> "text", of |-> iter, tool |-> ""]
AdvisoryPart(tool) == [part |-> "advisory", of |-> 0, tool |-> tool]

\* new AgentOrchestrator(options) and the start of run(initialMessages)
InitRunWith(mi, mode, n, heavy) ==
  /\ rpc = "llm"
  /\ maxIterations = mi
  /\ runMode = mode
  /\ iterations = 0
  /\ toolCallsExecuted = 0
  /\ consecutiveFailures = 0
  /\ lastFailedTool = ""
  /\ finalResponse = <<>>
  /\ messages = runEntry(initialMessages(n, heavy))
  /\ pending = <<>>
  /\ toolResults = <<>>
  /\ console = <<>>
  /\ runResult = NoRunResult
  /\ hist = <<>>
  /\ responses = <<>>

\* options.maxIterations || 100 ; 0 stands for an option that is not given
constructorMaxIterations(opt) == IF opt = 0 THEN DefaultMaxIterations ELSE opt

\* the runs explored: options given or not, short or long initial conversation
RunOptions == { [mi |-> OptMaxIterations, long |-> FALSE],
                [mi |-> OptMaxIterations, long |-> TRUE],
                [mi |-> 0, long |-> FALSE] }

InitRun ==
  \E o \in RunOptions, mode \in SafetyModes :
     InitRunWith(constructorMaxIterations(o.mi), mode,
                 IF o.long THEN LongHistory ELSE 2, o.long)

\* the orchestrator is constructed but run() is not exercised
RunParked == InitRunWith(constructorMaxIterations(0), "review", 2, FALSE)

\* the executor is constructed but not exercised
ExecParked ==
  /\ safetyMode = "review"
  /\ fs = [files |-> [q \in {F_a} |-> contentOf(TextX)], dirs |-> InitialDirs]
  /\ backups = NoBackups
  /\ epc = "idle"
  /\ call = NoCall
  /\ ev = newEv(fs, backups)
  /\ result = NoResult
  /\ nCalls = 0

returnRun(success, fr, it, n, err, msgs) ==
  /\ rpc' = "done"
  /\ runResult' = OrchestratorResult(success, fr, it, n, err, msgs)

\* one pass of the while loop up to the tool calls: iterations++, auto
\* compression, the LLM request, parseToolCalls
LLMRespond(response) ==
  /\ rpc = "llm"
  /\ iterations < MaxIter
  /\ Len(hist) + Len(response.calls) <= MaxToolCalls
  /\ iterations' = iterations + 1
  /\ finalResponse' = <<TextPart(iterations + 1)>>
  /\ LET msgs      == autoCompressMessages(messages)
         toolCalls == parseToolCalls(response)
     IN
     IF toolCalls = <<>>
     THEN /\ messages' = msgs
          /\ returnRun(TRUE, finalResponse', iterations', toolCallsExecuted, "", msgs)
          /\ UNCHANGED <<pending, toolResults>>
     ELSE /\ messages' = Append(msgs, Msg("assistant", "assistant", iterations', 1,
                                         invokesOf(response.calls)))
          /\ pending' = toolCalls
          /\ toolResults' = <<>>
          /\ rpc' = "tools"
          /\ UNCHANGED runResult
  /\ responses' = Append(responses, Len(parseToolCalls(response)))
  /\ UNCHANGED <<maxIterations, runMode, toolCallsExecuted, consecutiveFailures,
                 lastFailedTool, console, hist>>
  /\ UNCHANGED <<execVars, cmdVars, sideVars>>

\* the LLM transport throws while the response is obtained: the catch of run()
LLMError ==
  /\ rpc = "llm"
  /\ iterations < MaxIter
  /\ iterations' = iterations + 1
  /\ messages' = autoCompressMessages(messages)
  /\ returnRun(FALSE, finalResponse, iterations', toolCallsExecuted, "transport",
               messages')
  /\ UNCHANGED <<maxIterations, runMode, toolCallsExecuted, consecutiveFailures,
                 lastFailedTool, finalResponse, pending, toolResults, console, hist,
                 responses>>
  /\ UNCHANGED <<execVars, cmdVars, sideVars>>

\* a faulty variant of countFailure: a failure of another tool continues the count
countFailure_AnyTool(cf, last, tool, success) ==
  IF success THEN [cf |-> 0, last |-> ""]
  ELSE [cf |-> cf + 1, last |-> tool]

\* the update of consecutiveFailures / lastFailedTool after one result
countFailure(cf, last, tool, success) ==
  IF success THEN [cf |-> 0, last |-> ""]
  ELSE IF last = tool THEN [cf |-> cf + 1, last |-> last]
  ELSE [cf |-> 1, last |-> tool]

\* the "smart stop" test made after the tool calls of an iteration
breakerTrips(cf) == cf >= FailureLimit

\* one pass of the for loop over toolCalls: execute() and the bookkeeping
\* after it; after the last call, the rest of the iteration
DispatchTool(outcome) ==
  /\ rpc = "tools"
  /\ pending # <<>>
  /\ outcome \in ExecOutcomes(nextCall(pending), runMode)
  /\ IF outcome = "quit"
     THEN \* process.exit(0) inside requestApproval
          /\ rpc' = "exited"
          /\ UNCHANGED <<toolCallsExecuted, consecutiveFailures, lastFailedTool,
                         messages, pending, toolResults, console, runResult, hist>>
     ELSE LET tool == nextCall(pending)
              res  == executeResult(outcome)
              cnt  == countFailure(consecutiveFailures, lastFailedTool, tool, res.success)
              blocks == Append(toolResults, Block(tool, res))
          IN
          /\ toolCallsExecuted' = toolCallsExecuted + 1
          /\ toolResults' = blocks
          /\ hist' = Append(hist, [iter |-> iterations, tool |-> tool,
                                   success |-> res.success, kind |-> res.kind])
          /\ consecutiveFailures' = cnt.cf
          /\ lastFailedTool' = cnt.last
          /\ pending' = Tail(pending)
          /\ IF Tail(pending) # <<>>
             THEN UNCHANGED <<rpc, messages, console, runResult>>
             ELSE IF breakerTrips(cnt.cf)
             THEN /\ console' = Append(console, AdvisoryPart(cnt.last))
                  /\ messages' = messages
                  /\ returnRun(TRUE, finalResponse, iterations, toolCallsExecuted',
                               "", messages)
             ELSE /\ messages' = Append(messages,
                                        Msg("user", "results", iterations, 1, blocks))
                  /\ console' = console
                  /\ IF runMode = "dry-run" /\ iterations = 1
                     THEN returnRun(TRUE, finalResponse, iterations,
                                    toolCallsExecuted', "", messages')
                     ELSE rpc' = "llm" /\ runResult' = runResult
  /\ UNCHANGED <<maxIterations, runMode, iterations, finalResponse, responses>>
  /\ UNCHANGED <<execVars, cmdVars, sideVars>>

Responses ==
  { [calls |-> c, layout |-> l] :
      c \in UNION { [1..n -> RunTools] : n \in 0..MaxCallsPerTurn }, l \in Layouts }

-----------------------------------------------------------------------------
(* AgentOrchestrator.streamResponse(): the assistant text arrives in chunks; *)
(* text outside <action> regions is written to the display.                 *)

OpenTag  == <<"<", "a", "c", "t", "i", "o", "n", ">">>
CloseTag == <<"<", "/", "a", "c", "t", "i", "o", "n", ">">>

\* s.indexOf(p) + 1, 0 when p does not occur
indexOf(s, p) ==
  IF includes(s, p)
  THEN CHOOSE i \in 1..(Len(s) - Len(p) + 1) :
          /\ SubSeq(s, i, i + Len(p) - 1) = p
          /\ \A j \in 1..(i - 1) : SubSeq(s, j, j + Len(p) - 1) # p
  ELSE 0

\* s.split(p)[0]
beforeFirst(s, p) == SubSeq(s, 1, indexOf(s, p) - 1)

\* s.split(p).slice(1).join(p)
afterFirst(s, p) == SubSeq(s, indexOf(s, p) + Len(p), Len(s))

\* what process.stdout.write receives: characters, and the "Bailu: " prefix
Prefix == "Bailu: "

\* the locals of streamResponse before the first chunk, and an empty display
StreamStart == [fullResponse |-> <<>>, buffer |-> <<>>, firstChunk |-> TRUE,
                insideAction |-> FALSE, display |-> <<>>]

\* if (buffer.includes('<action>')) { ... }
openStage(st) ==
  IF includes(st.buffer, OpenTag)
  THEN LET beforeAction == beforeFirst(st.buffer, OpenTag)
           starts == st.firstChunk /\ trim(beforeAction) # <<>>
           fc     == st.firstChunk /\ ~starts
       IN  [st EXCEPT !.firstChunk = fc,
                      !.display = @ \o (IF starts THEN <<Prefix>> ELSE <<>>)
                                    \o (IF ~fc THEN beforeAction ELSE <<>>),
                      !.insideAction = TRUE,
                      !.buffer = afterFirst(st.buffer, OpenTag)]
  ELSE st

\* if (buffer.includes('</action>')) { ... }
closeStage(st) ==
  IF includes(st.buffer, CloseTag)
  THEN [st EXCEPT !.buffer = afterFirst(st.buffer, CloseTag), !.insideAction = FALSE]
  ELSE st

\* if (!insideAction && buffer && !buffer.includes('<action>')) { ... }
flushStage(st) ==
  IF ~st.insideAction /\ st.buffer # <<>> /\ ~includes(st.buffer, OpenTag)
  THEN LET starts == st.firstChunk /\ trim(st.buffer) # <<>>
           fc     == st.firstChunk /\ ~starts
       IN  [st EXCEPT !.firstChunk = fc,
                      !.display = @ \o (IF starts THEN <<Prefix>> ELSE <<>>)
                                    \o (IF ~fc THEN st.buffer ELSE <<>>),
                      !.buffer = <<>>]
  ELSE st

\* the body of the for await loop for one chunk
onChunk(st, chunk) ==
  flushStage(closeStage(openStage(
     [st EXCEPT !.fullResponse = @ \o chunk, !.buffer = @ \o chunk])))

\* after the loop: the rest of the buffer is written
afterLoop(st) ==
  IF ~st.insideAction /\ st.buffer # <<>> /\ ~st.firstChunk
  THEN [st EXCEPT !.display = @ \o st.buffer]
  ELSE st

\* after the try/catch: the newline that ends the output
afterTry(st) ==
  IF ~st.firstChunk THEN [st EXCEPT !.display = Append(@, "\n")] ELSE st

\* content.replace(actionRegex, ""): every <action>...</action> match removed
RECURSIVE removeActions(_)
removeActions(content) ==
  IF includes(content, OpenTag) /\ includes(afterFirst(content, OpenTag), CloseTag)
  THEN beforeFirst(content, OpenTag)
       \o removeActions(afterFirst(afterFirst(content, OpenTag), CloseTag))
  ELSE content

\* content.matchAll(actionRegex).length
RECURSIVE countActions(_)
countActions(content) ==
  IF includes(content, OpenTag) /\ includes(afterFirst(content, OpenTag), CloseTag)
  THEN 1 + countActions(afterFirst(afterFirst(content, OpenTag), CloseTag))
  ELSE 0

\* parseToolCalls(content).textContent
textContentOf(content) ==
  IF countActions(content) = 0 THEN content ELSE trim(removeActions(content))

NoTurn == [response |-> <<>>, actions |-> 0, textContent |-> <<>>, taken |-> FALSE]

\* the assistant texts the LLM streams
StreamTexts ==
  { <<"H">> \o OpenTag \o <<"x">> \o CloseTag,
    <<"H">> \o OpenTag \o <<"x">> \o CloseTag \o OpenTag \o <<"y">> \o CloseTag,
    OpenTag \o <<"x">> \o CloseTag \o <<"!">>,
    <<" ", "H", "!">> }

\* the characters of the action regions of StreamTexts, tags included; the
\* texts use none of them outside the regions
RegionChars == { OpenTag[i] : i \in DOMAIN OpenTag } \cup {"/", "x", "y"}

InitStream ==
  /\ spc = "streaming"
  /\ sRest \in StreamTexts
  /\ stream = StreamStart
  /\ streamFailed = FALSE
  /\ assistantTurn = NoTurn

\* streamResponse is not exercised
StreamParked ==
  /\ spc = "idle"
  /\ sRest = <<>>
  /\ stream = StreamStart
  /\ streamFailed = FALSE
  /\ assistantTurn = NoTurn

\* chatStream yields the next chunk: the first n characters not yet delivered
StreamChunk(n) ==
  /\ spc = "streaming"
  /\ n \in 1..Len(sRest)
  /\ stream' = onChunk(stream, SubSeq(sRest, 1, n))
  /\ sRest' = SubSeq(sRest, n + 1, Len(sRest))
  /\ UNCHANGED <<spc, streamFailed, assistantTurn>>
  /\ UNCHANGED <<execVars, cmdVars, runVars, retryVars, chatVars, moreVars>>

\* chatStream ends: the code after the loop, and the return of fullResponse
StreamEnd ==
  /\ spc = "streaming"
  /\ sRest = <<>>
  /\ stream' = afterTry(afterLoop(stream))
  /\ spc' = "returned"
  /\ UNCHANGED <<sRest, streamFailed, assistantTurn>>
  /\ UNCHANGED <<execVars, cmdVars, runVars, retryVars, chatVars, moreVars>>

\* chatStream throws, before the first chunk or between two chunks: the catch
\* of streamResponse, and the return of fullResponse
StreamThrows ==
  /\ spc = "streaming"
  /\ streamFailed' = TRUE
  /\ stream' = afterTry(stream)
  /\ spc' = "returned"
  /\ UNCHANGED <<sRest, assistantTurn>>
  /\ UNCHANGED <<execVars, cmdVars, runVars, retryVars, chatVars, moreVars>>

\* run() after `await this.streamResponse(...)`: parseToolCalls on the string
\* returned, finalResponse = textContent
TakeTurn ==
  /\ spc = "returned"
  /\ assistantTurn' = [response |-> stream.fullResponse,
                       actions |-> countActions(stream.fullResponse),
                       textContent |-> textContentOf(stream.fullResponse),
                       taken |-> TRUE]
  /\ spc' = "turn"
  /\ UNCHANGED <<sRest, stream, streamFailed>>
  /\ UNCHANGED <<execVars, cmdVars, runVars, retryVars, chatVars, moreVars>>

-----------------------------------------------------------------------------
(* LLM client: isRetryableError and fetchWithRetry around the request of    *)
(* chat().                                                                   *)

UpperCase == <<"A", "B", "C", "D", "E", "F", "G", "H", "I", "J", "K", "L", "M",
               "N", "O", "P", "Q", "R", "S", "T", "U", "V", "W", "X", "Y", "Z">>
LowerCase == <<"a", "b", "c", "d", "e", "f", "g", "h", "i", "j", "k", "l", "m",
               "n", "o", "p", "q", "r", "s", "t", "u", "v", "w", "x", "y", "z">>

\* the character a case-insensitive pattern compares
lowerChar(c) ==
  IF \E i \in DOMAIN UpperCase : UpperCase[i] = c
  THEN LowerCase[CHOOSE i \in DOMAIN UpperCase : UpperCase[i] = c]
  ELSE c

toLowerCase(s) == [i \in DOMAIN s |-> lowerChar(s[i])]

\* /p/i.test(s) for a literal p in lower case
testNoCase(s, p) == includes(toLowerCase(s), p)

\* /rate.?limit/i.test(s)
testRateLimit(s) ==
  LET l == toLowerCase(s) IN
  \/ includes(l, <<"r", "a", "t", "e", "l", "i", "m", "i", "t">>)
  \/ \E i \in 1..(Len(l) - 9) :
        /\ SubSeq(l, i, i + 3) = <<"r", "a", "t", "e">>
        /\ l[i + 4] # "\n"
        /\ SubSeq(l, i + 5, i + 9) = <<"l", "i", "m", "i", "t">>

\* RETRYABLE_ERROR_PATTERNS.some(pattern => pattern.test(error.message))
isRetryableError(message) ==
  \/ testNoCase(message, <<"n", "e", "t", "w", "o", "r", "k">>)
  \/ testNoCase(message, <<"t", "i", "m", "e", "o", "u", "t">>)
  \/ testNoCase(message, <<"e", "c", "o", "n", "n", "r", "e", "s", "e", "t">>)
  \/ testNoCase(message, <<"e", "n", "o", "t", "f", "o", "u", "n", "d">>)
  \/ includes(message, <<"5", "0", "3">>)
  \/ includes(message, <<"5", "0", "2">>)
  \/ includes(message, <<"5", "0", "4">>)
  \/ includes(message, <<"4", "2", "9">>)
  \/ testRateLimit(message)

\* a faulty variant of isRetryableError: every error is retried
isRetryableError_Always(message) == TRUE

\* fetchWithRetry(fn, maxRetries = 3, retryDelay = 1000)
maxRetries == 3
retryDelay == 1000
totalAttempts == maxRetries + 1

\* what one call of fn() can come to: the reply of fetch, or its rejection
\* (status 0).  `body` is the error.message of a JSON error body, <<>> when
\* the body is empty.
Reply(status, statusText, body) ==
  [status |-> status, statusText |-> statusText, body |-> body]

Replies ==
  { Reply(200, <<"O", "K">>, <<>>),
    Reply(0,   <<"r", "e", "a", "d", " ", "E", "C", "O", "N", "N", "R", "E", "S", "E", "T">>, <<>>),
    Reply(0,   <<"f", "e", "t", "c", "h", " ", "f", "a", "i", "l", "e", "d">>, <<>>),
    Reply(400, <<"B", "a", "d", " ", "R", "e", "q", "u", "e", "s", "t">>, <<>>),
    Reply(400, <<"B", "a", "d", " ", "R", "e", "q", "u", "e", "s", "t">>, <<"t", "o", "o", "l", " ", "t", "i", "m", "e", "o", "u", "t", " ", "m", "u", "s", "t", " ", "b", "e", " ", "p", "o", "s", "i", "t", "i", "v", "e">>),
    Reply(401, <<"U", "n", "a", "u", "t", "h", "o", "r", "i", "z", "e", "d">>, <<>>),
    Reply(429, <<"T", "o", "o", " ", "M", "a", "n", "y", " ", "R", "e", "q", "u", "e", "s", "t", "s">>, <<>>),
    Reply(500, <<"I", "n", "t", "e", "r", "n", "a", "l", " ", "S", "e", "r", "v", "e", "r", " ", "E", "r", "r", "o", "r">>, <<>>),
    Reply(503, <<"S", "e", "r", "v", "i", "c", "e", " ", "U", "n", "a", "v", "a", "i", "l", "a", "b", "l", "e">>, <<>>),
    Reply(503, <<"S", "e", "r", "v", "i", "c", "e", " ", "U", "n", "a", "v", "a", "i", "l", "a", "b", "l", "e">>, <<"O", "v", "e", "r", "l", "o", "a", "d", "e", "d">>) }

RECURSIVE digitsOf(_)
digitsOf(n) ==
  LET d == <<"0", "1", "2", "3", "4", "5", "6", "7", "8", "9">>[(n % 10) + 1]
  IN  IF n < 10 THEN <<d>> ELSE Append(digitsOf(n \div 10), d)

\* the message of the Error fn() throws for a reply: the rejection of fetch
\* as it is, `${res.status} ${res.statusText}` for a reply that is not ok,
\* replaced by error.message of the body when there is one
errorMessageOf(reply) ==
  IF reply.status = 0 THEN reply.statusText
  ELSE IF reply.body # <<>> THEN reply.body
  ELSE digitsOf(reply.status) \o <<" ">> \o reply.statusText

\* res.ok
ok(reply) == reply.status \in 200..299

\* Math.random() in the jitter: below, at and above one half
Jitters == {-1, 0, 1}

\* a faulty variant of delayOf: the delay grows by retryDelay, not by doubling
delayOf_Linear(att, j) ==
  LET linearDelay == retryDelay * (att + 1)
  IN  linearDelay + j * (linearDelay \div 4)

\* Math.max(0, exponentialDelay + jitter), with the jitter at -25%, 0, +25%
delayOf(att, j) ==
  LET exponentialDelay == retryDelay * (2 ^ att)
  IN  exponentialDelay + j * (exponentialDelay \div 4)

InitRetry ==
  /\ fpc = "attempt"
  /\ attempt = 0
  /\ lastError = <<>>
  /\ thrown = ""
  /\ attempts = <<>>

\* fetchWithRetry is not exercised
RetryParked ==
  /\ fpc = "idle"
  /\ attempt = 0
  /\ lastError = <<>>
  /\ thrown = ""
  /\ attempts = <<>>

\* one pass of the loop of fetchWithRetry: fn() comes to `reply`; the sleep
\* before the next pass uses the jitter j
Attempt(reply, j) ==
  /\ fpc = "attempt"
  /\ attempt < totalAttempts
  /\ IF ok(reply)
     THEN /\ fpc' = "returned"
          /\ attempts' = Append(attempts, [reply |-> reply, delay |-> 0, retried |-> FALSE])
          /\ UNCHANGED <<attempt, lastError, thrown>>
     ELSE /\ lastError' = errorMessageOf(reply)
          /\ IF attempt = totalAttempts - 1
             THEN /\ fpc' = "thrown"
                  /\ thrown' = "wrapped"
                  /\ attempts' = Append(attempts,
                                        [reply |-> reply, delay |-> 0, retried |-> FALSE])
                  /\ UNCHANGED attempt
             ELSE IF ~isRetryableError(errorMessageOf(reply))
             THEN /\ fpc' = "thrown"
                  /\ thrown' = "last"
                  /\ attempts' = Append(attempts,
                                        [reply |-> reply, delay |-> 0, retried |-> FALSE])
                  /\ UNCHANGED attempt
             ELSE /\ attempt' = attempt + 1
                  /\ attempts' = Append(attempts,
                                        [reply |-> reply, delay |-> delayOf(attempt, j),
                                         retried |-> TRUE])
                  /\ UNCHANGED <<fpc, thrown>>
  /\ UNCHANGED <<execVars, cmdVars, runVars, streamVars, chatVars, moreVars>>

\* the request of chatStream(): one fetch, outside fetchWithRetry; a reply
\* that is not ok (or a rejected fetch) is thrown to the caller at once
StreamRequest(reply) ==
  /\ fpc = "attempt"
  /\ attempts = <<>>
  /\ attempts' = <<[reply |-> reply, delay |-> 0, retried |-> FALSE]>>
  /\ IF ok(reply)
     THEN /\ fpc' = "returned"
          /\ UNCHANGED <<lastError, thrown>>
     ELSE /\ fpc' = "thrown"
          /\ thrown' = "stream"
          /\ lastError' = errorMessageOf(reply)
  /\ UNCHANGED attempt
  /\ UNCHANGED <<execVars, cmdVars, runVars, streamVars, chatVars, moreVars>>

-----------------------------------------------------------------------------
(* ChatSession: the REPL keeps the history and calls run() for every input. *)

\* buildSystemPrompt(workspaceContext): a system message without appendix
SystemPrompt == Msg("system", "system", 0, 1, <<>>)

\* the user message pushed for the n-th input
UserInput(n) == Msg("user", "input", n, 1, <<>>)

\* what a run() can come to for the REPL: `turns` iterations with tool calls
\* (an assistant message and a results message each), then success or not
RunOutcomes == { [success |-> b, turns |-> t] : b \in BOOLEAN, t \in 0..MaxTurns }

\* the messages run() pushes in `turns` iterations with tool calls
RECURSIVE createdBy(_)
createdBy(turns) ==
  IF turns = 0 THEN <<>>
  ELSE createdBy(turns - 1)
       \o <<Msg("assistant", "assistant", turns, 1, <<>>),
            Msg("user", "results", turns, 1, <<>>)>>

\* run(initial, true) as the REPL sees it: the conversation is the copy of
\* the initial messages with the appendix, then the messages created
runOf(initial, out) ==
  OrchestratorResult(out.success, <<TextPart(out.turns + 1)>>, out.turns + 1, out.turns,
                     IF out.success THEN "" ELSE "error",
                     autoCompressMessages(runEntry(initial)) \o createdBy(out.turns))

\* the history after run(): messages[0] of run() is the object the history
\* holds, so the appendix written by run() is in the history as well
afterRun(history) == [history EXCEPT ![1] = runEntry(history)[1]]

\* refreshWorkspaceContext(): a new system message replaces messages[0]
refreshWorkspaceContext(history) == [history EXCEPT ![1] = SystemPrompt]

\* the line handler after `await this.orchestrator.run(this.messages, true)`
lineResult(history, res) ==
  IF res.success
  THEN IF res.messages # <<>>
       THEN afterRun(history) \o res.messages
       ELSE Append(afterRun(history), Msg("assistant", "final", 0, 1, <<>>))
  ELSE afterRun(history)

\* processMultiLineInput after `await this.orchestrator.run(this.messages, true)`
multiLineResult(history, res) ==
  IF res.success
  THEN Append(afterRun(history), Msg("assistant", "final", 0, 1, <<>>))
  ELSE afterRun(history)

NoChatEv == [handler |-> "", pre |-> <<>>, input |-> UserInput(0), created |-> <<>>,
             success |-> FALSE]

\* new ChatSession(options): this.messages = [system message]
InitChat ==
  /\ chatMessages = <<SystemPrompt>>
  /\ chatInputs = 0
  /\ chatEv = NoChatEv

\* the line handler of start() for an input that is not a command
LineInput(out) ==
  /\ chatInputs < MaxInputs
  /\ chatInputs' = chatInputs + 1
  /\ chatMessages' =
       lineResult(Append(refreshWorkspaceContext(chatMessages), UserInput(chatInputs + 1)),
                  runOf(Append(refreshWorkspaceContext(chatMessages),
                               UserInput(chatInputs + 1)), out))
  /\ chatEv' = [handler |-> "line", pre |-> chatMessages,
                input |-> UserInput(chatInputs + 1),
                created |-> createdBy(out.turns), success |-> out.success]
  /\ UNCHANGED <<execVars, cmdVars, runVars, streamVars, retryVars, moreVars>>

\* processMultiLineInput(content)
MultiLineInput(out) ==
  /\ chatInputs < MaxInputs
  /\ chatInputs' = chatInputs + 1
  /\ chatMessages' =
       multiLineResult(Append(chatMessages, UserInput(chatInputs + 1)),
                       runOf(Append(chatMessages, UserInput(chatInputs + 1)), out))
  /\ chatEv' = [handler |-> "multiline", pre |-> chatMessages,
                input |-> UserInput(chatInputs + 1),
                created |-> createdBy(out.turns), success |-> out.success]
  /\ UNCHANGED <<execVars, cmdVars, runVars, streamVars, retryVars, moreVars>>

\* a slash command that clears the history: this.messages = [this.messages[0]]
ClearHistory ==
  /\ Len(chatMessages) > 1
  /\ chatMessages' = <<chatMessages[1]>>
  /\ chatEv' = NoChatEv
  /\ UNCHANGED chatInputs
  /\ UNCHANGED <<execVars, cmdVars, runVars, streamVars, retryVars, moreVars>>

\* handleCompress on context.messages longer than two: the system message,
\* the marker with the number of messages left out, the last six messages
compress(history) ==
  LET recentMessages == SubSeq(history, IF Len(history) > 6 THEN Len(history) - 5 ELSE 1,
                               Len(history))
  IN  <<history[1],
        Msg("system", "compressed", Len(history) - Len(recentMessages) - 1, 1, <<>>)>>
      \o recentMessages

\* /compress typed at the prompt
Compress ==
  /\ chatMessages' = IF Len(chatMessages) <= 2 THEN chatMessages ELSE compress(chatMessages)
  /\ chatEv' = [handler |-> "compress", pre |-> chatMessages, input |-> UserInput(0),
                created |-> <<>>, success |-> Len(chatMessages) > 2]
  /\ UNCHANGED chatInputs
  /\ UNCHANGED <<execVars, cmdVars, runVars, streamVars, retryVars, moreVars>>

-----------------------------------------------------------------------------
(* Slash commands: /mode.                                                    *)

\* the text of a safety mode
modeText(m) ==
  CASE m = "dry-run"    -> <<"d", "r", "y", "-", "r", "u", "n">>
    [] m = "review"     -> <<"r", "e", "v", "i", "e", "w">>
    [] m = "auto-apply" -> <<"a", "u", "t", "o", "-", "a", "p", "p", "l", "y">>

\* const validModes = ["dry-run", "review", "auto-apply"]
validModes == { modeText(m) : m \in SafetyModes }

\* what the user types after /mode; <<>> is no argument
ModeArgs == { <<>>, <<"d", "r", "y", "-", "r", "u", "n">>, <<"r", "e", "v", "i", "e", "w">>, <<"a", "u", "t", "o", "-", "a", "p", "p", "l", "y">>, <<"A", "u", "t", "o", "-", "A", "p", "p", "l", "y">>, <<"f", "a", "s", "t">> }

\* process.env.BAILU_MODE is not set by a /mode yet
InitMode == envMode = [value |-> <<>>, since |-> 0]

\* handleMode(args): a valid mode, in any case, is written to
\* process.env.BAILU_MODE; nothing else is written
handleMode(arg) ==
  /\ epc = "idle"
  /\ IF arg = <<>> \/ toLowerCase(arg) \notin validModes
     THEN UNCHANGED envMode
     ELSE envMode' = [value |-> toLowerCase(arg), since |-> nCalls]
  /\ UNCHANGED modeFrame

\* the components a specification does not exercise
-----------------------------------------------------------------------------
(* ToolRegistry: register, registerAll, clear.  A Tool is its definition's   *)
(* name and its handler; the Map is a function from names to handlers.       *)

RegNames == {"read_file", "write_file", "list_directory"}
Handlers == {"h1", "h2"}
Tools    == [name : RegNames, handler : Handlers]
ToolLists == {<<>>} \cup {<<t>> : t \in Tools} \cup {<<t, u>> : t, u \in Tools}

NoTools == [x \in {} |-> ""]
NoRegEv == [op |-> "", arg |-> <<>>, threw |-> FALSE, before |-> NoTools]

\* ToolRegistry.register on the Map `reg`: the Map after it and whether it threw
register(reg, tool) ==
  IF tool.name \in DOMAIN reg
  THEN [tools |-> reg, threw |-> TRUE]
  ELSE [tools |-> [n \in DOMAIN reg \cup {tool.name} |->
                     IF n = tool.name THEN tool.handler ELSE reg[n]],
        threw |-> FALSE]

\* ToolRegistry.registerAll: register each tool in order; a throw ends the loop
RECURSIVE registerAll(_, _)
registerAll(reg, ts) ==
  IF ts = <<>> THEN [tools |-> reg, threw |-> FALSE]
  ELSE LET r == register(reg, Head(ts)) IN
       IF r.threw THEN r ELSE registerAll(r.tools, Tail(ts))

InitReg == tools = NoTools /\ regEv = NoRegEv

Register(tool) ==
  /\ tools' = register(tools, tool).tools
  /\ regEv' = [op |-> "register", arg |-> <<tool>>,
               threw |-> register(tools, tool).threw, before |-> tools]
  /\ UNCHANGED regFrame

RegisterAll(ts) ==
  /\ tools' = registerAll(tools, ts).tools
  /\ regEv' = [op |-> "registerAll", arg |-> ts,
               threw |-> registerAll(tools, ts).threw, before |-> tools]
  /\ UNCHANGED regFrame

\* ToolRegistry.clear
Clear ==
  /\ tools' = NoTools
  /\ regEv' = [op |-> "clear", arg |-> <<>>, threw |-> FALSE, before |-> tools]
  /\ UNCHANGED regFrame

-----------------------------------------------------------------------------
(* parseToolCalls on the characters of a response: the three regular         *)
(* expressions (action, invoke, param) and the text left.  The value of a    *)
(* param is kept as its trimmed text.                                        *)

InvokeWord  == <<"<", "i", "n", "v", "o", "k", "e">>
InvokeAttr  == <<"t", "o", "o", "l", "=", "\"">>
InvokeClose == <<"<", "/", "i", "n", "v", "o", "k", "e", ">">>
ParamWord   == <<"<", "p", "a", "r", "a", "m">>
ParamAttr   == <<"n", "a", "m", "e", "=", "\"">>
ParamClose  == <<"<", "/", "p", "a", "r", "a", "m", ">">>
AttrEnd     == <<"\"", ">">>

\* [^"]+ at the head of s
RECURSIVE attrValue(_)
attrValue(s) ==
  IF s = <<>> \/ Head(s) = "\"" THEN <<>> ELSE <<Head(s)>> \o attrValue(Tail(s))

\* <word\s+attr="([^"]+)"> at the head of s: whether it matches, group 1 and
\* the text after the match
openTagAt(s, word, attr) ==
  LET afterWord == SubSeq(s, Len(word) + 1, Len(s))
      afterWs   == trimStart(afterWord)
      afterAttr == SubSeq(afterWs, Len(attr) + 1, Len(afterWs))
      value     == attrValue(afterAttr)
      afterVal  == SubSeq(afterAttr, Len(value) + 1, Len(afterAttr))
  IN  IF /\ startsWith(s, word)
         /\ afterWord # <<>> /\ Head(afterWord) \in Whitespace
         /\ startsWith(afterWs, attr)
         /\ value # <<>>
         /\ startsWith(afterVal, AttrEnd)
      THEN [ok |-> TRUE, value |-> value,
            rest |-> SubSeq(afterVal, Len(AttrEnd) + 1, Len(afterVal))]
      ELSE [ok |-> FALSE, value |-> <<>>, rest |-> <<>>]

\* Array.from(s.matchAll(/<word\s+attr="([^"]+)">([\s\S]*?)<\/close>/g)):
\* the groups 1 and 2 of every match, in order
RECURSIVE taggedMatches(_, _, _, _)
taggedMatches(s, word, attr, close) ==
  IF s = <<>> THEN <<>>
  ELSE LET o == openTagAt(s, word, attr) IN
       IF o.ok /\ includes(o.rest, close)
       THEN <<[name |-> o.value, body |-> beforeFirst(o.rest, close)]>>
            \o taggedMatches(afterFirst(o.rest, close), word, attr, close)
       ELSE taggedMatches(Tail(s), word, attr, close)

\* the groups 1 of content.matchAll(actionRegex), in order
RECURSIVE actionContents(_)
actionContents(content) ==
  IF includes(content, OpenTag) /\ includes(afterFirst(content, OpenTag), CloseTag)
  THEN <<beforeFirst(afterFirst(content, OpenTag), CloseTag)>>
       \o actionContents(afterFirst(afterFirst(content, OpenTag), CloseTag))
  ELSE <<>>

\* the params of one invoke: name and trimmed value of every param match
paramsOf(paramsContent) ==
  LET ms == taggedMatches(paramsContent, ParamWord, ParamAttr, ParamClose) IN
  [i \in 1..Len(ms) |-> [name |-> ms[i].name, value |-> trim(ms[i].body)]]

\* the tool calls pushed for one action match
invokesIn(actionContent) ==
  LET ms == taggedMatches(actionContent, InvokeWord, InvokeAttr, InvokeClose) IN
  [i \in 1..Len(ms) |-> [tool |-> ms[i].name, params |-> paramsOf(ms[i].body)]]

\* the tool calls of all action matches, in order
RECURSIVE invokesOfAll(_)
invokesOfAll(actions) ==
  IF actions = <<>> THEN <<>>
  ELSE invokesIn(Head(actions)) \o invokesOfAll(Tail(actions))

\* parseToolCalls(content) on characters
parseContent(content) ==
  [toolCalls |-> invokesOfAll(actionContents(content)),
   textContent |-> textContentOf(content),
   returned |-> TRUE]

NoParse == [toolCalls |-> <<>>, textContent |-> <<>>, returned |-> FALSE]

\* ---- inputs: a response assembled from optional pieces ----
InvokeOpenR == <<"<", "i", "n", "v", "o", "k", "e", " ", "t", "o", "o", "l", "=", "\"", "r", "\"", ">">>
ParamOpenP  == <<"<", "p", "a", "r", "a", "m", " ", "n", "a", "m", "e", "=", "\"", "p", "\"", ">">>
LeadText    == <<"o", "k", " ">>
SecondBlock == OpenTag \o <<"<", "i", "n", "v", "o", "k", "e", " ", "t", "o", "o", "l", "=", "\"", "l", "\"", ">">> \o InvokeClose \o CloseTag

ParseShapes ==
  [lead : BOOLEAN, aOpen : BOOLEAN, iOpen : BOOLEAN, pOpen : BOOLEAN,
   pClose : BOOLEAN, iClose : BOOLEAN, aClose : BOOLEAN, second : BOOLEAN]

piece(on, text) == IF on THEN text ELSE <<>>

textOfShape(sh) ==
  piece(sh.lead, LeadText) \o piece(sh.aOpen, OpenTag) \o piece(sh.iOpen, InvokeOpenR)
  \o piece(sh.pOpen, ParamOpenP) \o <<"v">> \o piece(sh.pClose, ParamClose)
  \o piece(sh.iClose, InvokeClose) \o piece(sh.aClose, CloseTag)
  \o piece(sh.second, SecondBlock)

ParseTexts == { textOfShape(sh) : sh \in ParseShapes }

InitParse == parseIn = <<>> /\ parseOut = NoParse

\* a response arrives
Receive(content) ==
  /\ parseOut = NoParse /\ parseIn = <<>>
  /\ parseIn' = content
  /\ UNCHANGED <<parseOut, parseFrame>>

\* parseToolCalls(content)
Parse ==
  /\ parseIn # <<>> /\ ~parseOut.returned
  /\ parseOut' = parseContent(parseIn)
  /\ UNCHANGED <<parseIn, parseFrame>>

-----------------------------------------------------------------------------
(* requestApproval and process.stdin: the listeners saved, removed and       *)
(* restored around the prompt, raw mode, and the chunks stdin emits.         *)

MaxReprompts == 2     \* prompts of one requestApproval (the first and the re-prompts)
MaxBuffer    == 3     \* characters typed before the newline

StdinEvents == {"data", "readable", "end", "close", "error", "keypress"}
\* the events whose listeners requestApproval saves and removes
SavedEvents == {"data", "readable", "end", "close", "error"}

NoListeners == [e \in StdinEvents |-> <<>>]

\* the listeners other code has attached when the prompt starts
ListenerSetups ==
  { NoListeners,
    [NoListeners EXCEPT !["data"] = <<"rlData">>, !["end"] = <<"rlEnd">>],
    [NoListeners EXCEPT !["data"] = <<"kpData", "rlData">>, !["keypress"] = <<"rlKey">>,
                        !["end"] = <<"rlEnd">>, !["error"] = <<"onErr">>],
    [NoListeners EXCEPT !["readable"] = <<"rd">>, !["close"] = <<"cl">>,
                        !["data"] = <<"a", "a">>] }

Chunks == { <<"y", NL>>, <<"n", NL>>, <<"d", NL>>, <<"q", NL>>,
            <<"y">>, <<"D">>, <<NL>> }

\* allListeners: the events that have listeners, with their listeners
savedListeners(ls) == [e \in {x \in SavedEvents : ls[x] # <<>>} |-> ls[e]]

\* process.stdin.removeAllListeners(event) for every event saved
removeSaved(ls, saved) == [e \in StdinEvents |-> IF e \in DOMAIN saved THEN <<>> ELSE ls[e]]

\* process.stdin.on(event, listener)
addListener(ls, event, listener) == [ls EXCEPT ![event] = Append(@, listener)]

\* process.stdin.removeListener(event, listener): the last one added goes
RECURSIVE dropLast(_, _)
dropLast(q, listener) ==
  IF q = <<>> THEN <<>>
  ELSE IF q[Len(q)] = listener THEN SubSeq(q, 1, Len(q) - 1)
  ELSE Append(dropLast(SubSeq(q, 1, Len(q) - 1), listener), q[Len(q)])

removeListener(ls, event, listener) == [ls EXCEPT ![event] = dropLast(@, listener)]

\* a faulty variant of restoreListeners: only the data listeners come back
restoreListeners_DataOnly(ls, saved) ==
  [e \in StdinEvents |-> IF e \in DOMAIN saved /\ e = "data" THEN ls[e] \o saved[e] ELSE ls[e]]

\* allListeners.forEach((listeners, event) => listeners.forEach(on))
restoreListeners(ls, saved) ==
  [e \in StdinEvents |-> IF e \in DOMAIN saved THEN ls[e] \o saved[e] ELSE ls[e]]

NoPev == [before |-> NoListeners, rawBefore |-> FALSE, allListeners |-> savedListeners(NoListeners),
          wasRaw |-> FALSE, buffer |-> <<>>, got |-> {}, early |-> {},
          prompts |-> 0, approved |-> FALSE]

InitPrompt ==
  /\ stdinListeners = NoListeners
  /\ isTTY = FALSE /\ isRaw = FALSE
  /\ ppc = "idle"
  /\ pev = NoPev

\* the listeners an emitted chunk reaches
hearers(ls) == {ls["data"][i] : i \in 1..Len(ls["data"])}
               \cup {ls["readable"][i] : i \in 1..Len(ls["readable"])}

\* the body of the Promise of requestApproval up to process.stdin.on('data', onData)
askApproval(e) ==
  /\ stdinListeners' = addListener(removeSaved(stdinListeners, savedListeners(stdinListeners)),
                                   "data", "onData")
  /\ isRaw' = IF isTTY THEN FALSE ELSE isRaw
  /\ pev' = [e EXCEPT !.allListeners = savedListeners(stdinListeners),
                      !.wasRaw = isRaw, !.buffer = <<>>, !.prompts = e.prompts + 1]
  /\ ppc' = "waiting"
  /\ UNCHANGED <<isTTY, promptFrame>>

\* requestApproval(toolCall) called by execute()
StartApproval ==
  /\ ppc = "idle"
  /\ askApproval([NoPev EXCEPT !.before = stdinListeners, !.rawBefore = isRaw])

\* showDiffPreview(..., true) resolved: requestApproval(toolCall) again
Reprompt ==
  /\ ppc = "preview"
  /\ pev.prompts < MaxReprompts
  /\ askApproval(pev)

\* buffer.trim().toLowerCase() and the answers onData tells apart
answerOf(buffer) == toLowerCase(trim(buffer))
quitTyped(a)   == a = <<"q">> \/ a = <<"q", "u", "i", "t">>
diffTyped(a)   == a = <<"d">> \/ a = <<"d", "i", "f", "f">>
yesTyped(a)    == a = <<"y">> \/ a = <<"y", "e", "s">>

\* onData once the buffer holds a newline
onLine(buffer) ==
  /\ stdinListeners' = restoreListeners(removeListener(stdinListeners, "data", "onData"),
                                        pev.allListeners)
  /\ isRaw' = IF isTTY /\ pev.wasRaw THEN TRUE ELSE isRaw
  /\ ppc' = IF quitTyped(answerOf(buffer)) THEN "exited"
            ELSE IF diffTyped(answerOf(buffer)) THEN "preview"
            ELSE "resolved"
  /\ pev' = [pev EXCEPT !.buffer = buffer,
                        !.got = @ \cup (hearers(stdinListeners) \ {"onData"}),
                        !.approved = yesTyped(answerOf(buffer))]

\* process.stdin emits 'data' with a chunk
StdinData(chunk) ==
  /\ ppc \in {"waiting", "preview"}
  /\ IF "onData" \in hearers(stdinListeners)
     THEN IF NL \in {chunk[i] : i \in 1..Len(chunk)}
          THEN onLine(pev.buffer \o chunk)
          ELSE /\ Len(pev.buffer) + Len(chunk) <= MaxBuffer
               /\ pev' = [pev EXCEPT !.buffer = @ \o chunk,
                                     !.got = @ \cup (hearers(stdinListeners) \ {"onData"})]
               /\ UNCHANGED <<stdinListeners, isRaw, ppc>>
     ELSE \* no prompt is shown: the chunk goes to the listeners attached
          /\ pev' = [pev EXCEPT !.early = @ \cup hearers(stdinListeners)]
          /\ UNCHANGED <<stdinListeners, isRaw, ppc>>
  /\ UNCHANGED <<isTTY, promptFrame>>

-----------------------------------------------------------------------------
(* ChatSession.start: the SIGINT handler.  Date.now() is a clock that does   *)
(* not run backwards.                                                        *)

SigintWindow == 3000     \* milliseconds
MaxSignals   == 3        \* SIGINTs delivered
MaxClock     == 9000     \* the clock stops here
StartClock   == 1000
Delays       == {1000, 2999, 3000}

\* a faulty variant of sigintExits: the window includes its end
sigintExits_Inclusive(last, now) == last # 0 /\ (now - last) <= SigintWindow

\* lastSigintTime && (now - lastSigintTime) < 3000
sigintExits(last, now) == last # 0 /\ (now - last) < SigintWindow

InitSig ==
  /\ clock = StartClock
  /\ lastSigintTime = 0
  /\ sigpc = "running"
  /\ sigHist = <<>>

\* time passes
Tick(d) ==
  /\ sigpc = "running"
  /\ clock + d <= MaxClock
  /\ clock' = clock + d
  /\ UNCHANGED <<lastSigintTime, sigpc, sigHist, sigFrame>>

\* process.on('SIGINT', ...): the handler runs
Sigint ==
  /\ sigpc = "running"
  /\ Len(sigHist) < MaxSignals
  /\ IF sigintExits(lastSigintTime, clock)
     THEN \* "再見！", process.exit(0)
          /\ sigpc' = "exited"
          /\ sigHist' = Append(sigHist, [at |-> clock, exited |-> TRUE,
                                         hint |-> FALSE, prompted |-> FALSE])
          /\ UNCHANGED lastSigintTime
     ELSE \* the hint, lastSigintTime = now, this.rl.prompt()
          /\ lastSigintTime' = clock
          /\ sigHist' = Append(sigHist, [at |-> clock, exited |-> FALSE,
                                         hint |-> TRUE, prompted |-> TRUE])
          /\ UNCHANGED sigpc
  /\ UNCHANGED <<clock, sigFrame>>

-----------------------------------------------------------------------------
(* HistoryManager: load, save, add.  A line is a number; an entry is the     *)
(* sequence of its lines (one line for a typed command, several for a        *)
(* multi-line input); <<>> is a command that is blank.                       *)

maxHistorySize == 1000
MaxAdds        == 4      \* add() calls explored

\* content.split("\n"), trimmed, blank lines dropped: one entry per line
load(file) == [i \in 1..Len(file) |-> <<file[i]>>]

\* this.history.slice(-n)
lastEntries(h, n) == IF Len(h) > n THEN SubSeq(h, Len(h) - n + 1, Len(h)) ELSE h

\* entries.join("\n"), as the lines of the file
RECURSIVE joinEntries(_)
joinEntries(h) ==
  IF h = <<>> THEN <<>>
  ELSE IF Len(h) = 1 THEN h[1]
  ELSE joinEntries(SubSeq(h, 1, Len(h) \div 2))
       \o joinEntries(SubSeq(h, Len(h) \div 2 + 1, Len(h)))

\* save(): the last maxHistorySize entries are written
save(h) == joinEntries(lastEntries(h, maxHistorySize))

\* add(command) on the list: the list after it
add(h, command) ==
  IF command = <<>> THEN h
  ELSE IF Len(h) > 0 /\ h[Len(h)] = command THEN h
  ELSE Append(h, command)

\* the lines of history.txt when a session starts
OldFiles == { <<>>, [i \in 1..(maxHistorySize - 1) |-> 1000 + i] }
\* what the chat hands to add(): typed lines, a blank, a multi-line input
Commands == { <<1>>, <<2>>, <<>>, <<1, 2>> }

NoHistory == <<"null">>

InitHist ==
  /\ historyFile = <<>>
  /\ cmdHistory = NoHistory
  /\ hAdded = <<>>
  /\ hOps = 0

\* new HistoryManager(historyPath) in a session that finds `file`
OpenHistory(file) ==
  /\ cmdHistory = NoHistory
  /\ historyFile' = file
  /\ cmdHistory' = load(file)
  /\ hAdded' = load(file)
  /\ UNCHANGED <<hOps, histFrame>>

\* new HistoryManager(historyPath) in the next session
ReopenHistory ==
  /\ cmdHistory # NoHistory
  /\ cmdHistory # load(historyFile)
  /\ cmdHistory' = load(historyFile)
  /\ UNCHANGED <<historyFile, hAdded, hOps, histFrame>>

\* HistoryManager.add(command)
Add(command) ==
  /\ cmdHistory # NoHistory
  /\ hOps < MaxAdds
  /\ hOps' = hOps + 1
  /\ cmdHistory' = add(cmdHistory, command)
  /\ historyFile' = IF add(cmdHistory, command) = cmdHistory THEN historyFile
                    ELSE save(add(cmdHistory, command))
  /\ hAdded' = IF add(cmdHistory, command) = cmdHistory THEN hAdded
               ELSE Append(hAdded, command)
  /\ UNCHANGED histFrame

-----------------------------------------------------------------------------
(* Saved chat sessions: ChatSession.saveCurrentSession / loadSession and     *)
(* ChatSessionManager (the files of .bailu/sessions).                         *)

MaxSessOps == 4

\* the characters sanitizeFilename keeps: [a-zA-Z0-9-_]
isSafeChar(c) ==
  \/ \E i \in DOMAIN LowerCase : LowerCase[i] = c
  \/ \E i \in DOMAIN UpperCase : UpperCase[i] = c
  \/ c \in {"0", "1", "2", "3", "4", "5", "6", "7", "8", "9"} \/ c = "-" \/ c = "_"

\* name.replace(/[^a-zA-Z0-9-_]/g, "_").toLowerCase()
sanitizeFilename(name) ==
  toLowerCase([i \in DOMAIN name |-> IF isSafeChar(name[i]) THEN name[i] ELSE "_"])

\* Date.prototype.toISOString and new Date(iso): a date is its milliseconds
toISOString(d) == <<"iso", d>>
dateOf(iso) == iso[2]

NoName == <<"undefined">>
SessionNames == { <<"P">>, <<"a", " ", "b">>, <<"a", "_", "b">> }
\* what the user can type after /load
LoadArgs == SessionNames \cup { <<"p">>, <<"A", " ", "B">> }
                         \cup { <<"session_">> \o digitsOf(t) : t \in 1..MaxSessOps }

\* the sessionStats of a ChatSession constructed at `now`
freshStats(now) ==
  [messagesCount |-> 0, toolCallsCount |-> 0, totalTokensUsed |-> 0,
   totalResponseTime |-> 0, apiCallsCount |-> 0, filesModified |-> 0,
   startTime |-> now, lastRequestTime |-> 0]

freshSession(now) ==
  [messages |-> <<>>, activeFiles |-> {}, sessionStats |-> freshStats(now)]

NoSessEv == [op |-> "none", arg |-> <<>>, found |-> FALSE, file |-> <<>>]

InitSess ==
  /\ chatSess = freshSession(0)
  /\ sessionFiles = <<>>
  /\ sessSaved = <<>>
  /\ sessClock = 0
  /\ sessEv = NoSessEv

\* saveCurrentSession(): the ChatSessionData built from the session
sessionDataOf(sess, name, now) ==
  [sessionId |-> IF name # NoName THEN sanitizeFilename(name)
                 ELSE <<"session_">> \o digitsOf(now),
   name |-> name,
   createdAt |-> toISOString(sess.sessionStats.startTime),
   lastUpdatedAt |-> toISOString(now),
   messages |-> sess.messages,
   stats |-> [messagesCount |-> sess.sessionStats.messagesCount,
              toolCallsCount |-> sess.sessionStats.toolCallsCount,
              totalTokensUsed |-> sess.sessionStats.totalTokensUsed,
              totalResponseTime |-> sess.sessionStats.totalResponseTime,
              apiCallsCount |-> sess.sessionStats.apiCallsCount,
              startTime |-> toISOString(sess.sessionStats.startTime)],
   activeFiles |-> sess.activeFiles]

\* fs.writeFile of `${id}.json`
writeSessionFile(files, id, data) ==
  [k \in DOMAIN files \cup {id} |-> IF k = id THEN data ELSE files[k]]

\* ChatSessionManager.saveSession
saveSession(files, session, now) ==
  writeSessionFile(files, session.sessionId,
                   [session EXCEPT !.lastUpdatedAt = toISOString(now)])

\* ChatSessionManager.saveSessionByName
saveSessionByName(files, session, name, now) ==
  saveSession(files, [session EXCEPT !.name = name,
                                     !.sessionId = sanitizeFilename(name)], now)

\* listSessions().find(s => s.name?.toLowerCase() === arg.toLowerCase()):
\* the sessions are listed by lastUpdatedAt, latest first
findByName(files, arg) ==
  LET named == { k \in DOMAIN files :
                   /\ files[k].name # NoName
                   /\ toLowerCase(files[k].name) = toLowerCase(arg) }
  IN  IF named = {} THEN <<>>
      ELSE CHOOSE k \in named :
             \A j \in named : dateOf(files[j].lastUpdatedAt) <= dateOf(files[k].lastUpdatedAt)

\* ChatSessionManager.loadSession: the file read, <<>> for null
sessionFileOf(files, arg) ==
  IF arg \in DOMAIN files THEN arg ELSE findByName(files, arg)

\* ChatSession.loadSession: the fields it restores
restoreSession(sess, data) ==
  [messages |-> data.messages,
   activeFiles |-> data.activeFiles,
   sessionStats |-> [sess.sessionStats EXCEPT
      !.messagesCount = data.stats.messagesCount,
      !.toolCallsCount = data.stats.toolCallsCount,
      !.totalTokensUsed = data.stats.totalTokensUsed,
      !.totalResponseTime = data.stats.totalResponseTime,
      !.apiCallsCount = data.stats.apiCallsCount,
      !.startTime = dateOf(data.stats.startTime)]]

\* /save [name]
SaveCurrentSession(name) ==
  LET data == sessionDataOf(chatSess, name, sessClock + 1)
      files == IF name # NoName
               THEN saveSessionByName(sessionFiles, data, name, sessClock + 1)
               ELSE saveSession(sessionFiles, data, sessClock + 1)
  IN  /\ sessClock < MaxSessOps
      /\ sessClock' = sessClock + 1
      /\ sessionFiles' = files
      /\ sessSaved' = writeSessionFile(sessSaved, data.sessionId, chatSess)
      /\ sessEv' = [op |-> "save", arg |-> name, found |-> TRUE, file |-> data.sessionId]
      /\ UNCHANGED <<chatSess, sessFrame>>

\* /load <id or name>
LoadSession(arg) ==
  LET f == sessionFileOf(sessionFiles, arg) IN
  /\ sessClock < MaxSessOps
  /\ sessClock' = sessClock + 1
  /\ chatSess' = IF f = <<>> THEN chatSess ELSE restoreSession(chatSess, sessionFiles[f])
  /\ sessEv' = [op |-> "load", arg |-> arg, found |-> f # <<>>, file |-> f]
  /\ UNCHANGED <<sessionFiles, sessSaved, sessFrame>>

\* one turn of the REPL: the user message, the run and what it adds
SessionTurn(success, nTools, responseTime) ==
  /\ sessClock < MaxSessOps
  /\ sessClock' = sessClock + 1
  /\ chatSess' =
       [messages |-> chatSess.messages \o <<"user">>
                       \o (IF success THEN <<"assistant">> ELSE <<>>),
        activeFiles |-> IF success /\ nTools > 0
                        THEN chatSess.activeFiles \cup {"a.ts"} ELSE chatSess.activeFiles,
        sessionStats |-> [chatSess.sessionStats EXCEPT
           !.messagesCount = @ + (IF success THEN 2 ELSE 1),
           !.lastRequestTime = responseTime,
           !.totalResponseTime = @ + responseTime,
           !.apiCallsCount = @ + 1,
           !.totalTokensUsed = @ + (IF success THEN 2 ELSE 1),
           !.toolCallsCount = @ + (IF success THEN nTools ELSE 0)]]
  /\ sessEv' = [op |-> "turn", arg |-> <<>>, found |-> success, file |-> <<>>]
  /\ UNCHANGED <<sessionFiles, sessSaved, sessFrame>>

\* the program is started again: a new ChatSession over the same directory
RestartChat ==
  /\ sessClock < MaxSessOps
  /\ sessClock' = sessClock + 1
  /\ chatSess' = freshSession(sessClock + 1)
  /\ sessEv' = [op |-> "start", arg |-> <<>>, found |-> FALSE, file |-> <<>>]
  /\ UNCHANGED <<sessionFiles, sessSaved, sessFrame>>


-----------------------------------------------------------------------------
(* PasteDetector: lines are buffered and handed to onComplete when no line  *)
(* has come for `delay`, or at once when the buffer holds maxLines lines.    *)

maxLines == 1000
MaxLinesPushed == 1004
MaxPasteOps == 4

\* faulty variant of flush(): the buffer is handed over and not emptied
flush_KeepBuffer(d) ==
  IF d.buffer = <<>> THEN d
  ELSE [buffer |-> d.buffer, timer |-> FALSE,
        events |-> Append(d.events, [lines |-> d.buffer, isPaste |-> Len(d.buffer) > 1])]

\* flush(): the buffer goes to onComplete as one event
flush(d) ==
  IF d.buffer = <<>> THEN d
  ELSE [buffer |-> <<>>, timer |-> FALSE,
        events |-> Append(d.events, [lines |-> d.buffer, isPaste |-> Len(d.buffer) > 1])]

\* push(line)
push(d, line) ==
  LET b == Append(d.buffer, line) IN
  IF Len(b) >= maxLines
  THEN flush([d EXCEPT !.buffer = b, !.timer = FALSE])
  ELSE [d EXCEPT !.buffer = b, !.timer = TRUE]

\* clear() and destroy()
clear(d) == [d EXCEPT !.buffer = <<>>, !.timer = FALSE]

\* push() for the lines first..last, one after the other (the test of
\* d.timer has the pushes computed in this order)
RECURSIVE pushLines(_, _, _)
pushLines(d, first, last) ==
  IF d.timer \in BOOLEAN /\ first > last THEN d
  ELSE IF first = last THEN push(d, first)
  ELSE pushLines(pushLines(d, first, (first + last) \div 2), (first + last) \div 2 + 1, last)

\* the sizes of a burst of lines: one typed line, a small paste, a paste of
\* more than maxLines lines
BurstSizes == {1, 2, maxLines + 1}

NoDetector == [buffer |-> <<>>, timer |-> FALSE, events |-> <<>>]

InitPaste ==
  /\ detector = NoDetector
  /\ pdGroups = <<>>
  /\ pdPushed = 0
  /\ pdOps = 0

\* `k` line events of readline with gaps shorter than the delay: the lines
\* pdPushed+1 .. pdPushed+k.  While the timer is armed the delay has not passed
\* since the last push, so the burst continues the group of that push.
PushBurst(k) ==
  /\ pdOps < MaxPasteOps
  /\ pdPushed + k <= MaxLinesPushed
  /\ pdOps' = pdOps + 1
  /\ pdPushed' = pdPushed + k
  /\ detector' = pushLines(detector, pdPushed + 1, pdPushed + k)
  /\ pdGroups' =
       LET lines == [i \in 1..k |-> pdPushed + i] IN
       IF detector.timer
       THEN [pdGroups EXCEPT ![Len(pdGroups)] = @ \o lines]
       ELSE Append(pdGroups, lines)
  /\ UNCHANGED pasteFrame

\* the timer set by push() fires: no line has come for `delay`
TimerFires ==
  /\ detector.timer
  /\ detector' = flush(detector)
  /\ UNCHANGED <<pdGroups, pdPushed, pdOps, pasteFrame>>

\* clear() or destroy(): the lines still buffered are dropped
ClearDetector ==
  /\ pdOps < MaxPasteOps
  /\ pdOps' = pdOps + 1
  /\ detector' = clear(detector)
  /\ pdGroups' = IF detector.timer
                 THEN SubSeq(pdGroups, 1, Len(pdGroups) - 1)
                      \o (IF Len(pdGroups[Len(pdGroups)]) > Len(detector.buffer)
                          THEN <<SubSeq(pdGroups[Len(pdGroups)], 1,
                                        Len(pdGroups[Len(pdGroups)]) - Len(detector.buffer))>>
                          ELSE <<>>)
                 ELSE pdGroups
  /\ UNCHANGED <<pdPushed, pasteFrame>>


-----------------------------------------------------------------------------
(* Turns of the REPL: readline emits line events, the handler (chat.ts) or  *)
(* the paste detector's onComplete (part_008) pauses readline and awaits     *)
(* orchestrator.run().  rl.pause() stops the input stream; the line events   *)
(* of the chunk already read are still emitted.                              *)

MaxChunks == 2

\* what the turn actions leave alone besides the detector
turnRest == <<coreVars, modeVars, regVars, parseVars, promptVars, sigVars, histVars,
              sessVars, pdGroups, pdPushed, pdOps>>

\* the lines a chunk of stdin can hold: a typed line, two pasted lines and,
\* with the paste detector, a paste of more than maxLines lines
ChunkSizes(fe) == IF fe = "paste" THEN {1, 2, maxLines + 1} ELSE {1, 2}

NoTurns == [paused |-> FALSE, running |-> {}, log |-> <<>>, started |-> 0]

InitTurn ==
  /\ frontEnd = "none"
  /\ chunkRest = 0
  /\ chunksRead = 0
  /\ linesRead = 0
  /\ replTurns = NoTurns

\* the handler of an input up to `await this.orchestrator.run(...)`:
\* rl.pause(), the user message is pushed, run() is called
beginTurn(t) ==
  [paused  |-> TRUE,
   running |-> t.running \cup {t.started + 1},
   log     |-> Append(t.log, [turn |-> t.started + 1, what |-> "user"]),
   started |-> t.started + 1]

\* the handler after run() has returned: the result is pushed, rl.resume()
endTurn(t, id) ==
  [paused  |-> FALSE,
   running |-> t.running \ {id},
   log     |-> Append(t.log, [turn |-> id, what |-> "result"]),
   started |-> t.started]

\* onComplete of the detector for the events flushed by a step
afterFlush(t, before, after) ==
  IF Len(after.events) > Len(before.events) THEN beginTurn(t) ELSE t

\* start(): the session listens with the line handler or with the detector
StartChat(fe) ==
  /\ frontEnd = "none"
  /\ frontEnd' = fe
  /\ UNCHANGED <<chunkRest, chunksRead, linesRead, replTurns, detector, turnRest>>

\* readline reads a chunk of `k` lines from stdin (not while it is paused)
StdinChunk(k) ==
  /\ frontEnd # "none"
  /\ ~replTurns.paused
  /\ chunkRest = 0
  /\ chunksRead < MaxChunks
  /\ chunksRead' = chunksRead + 1
  /\ chunkRest' = k
  /\ UNCHANGED <<frontEnd, linesRead, replTurns, detector, turnRest>>

\* readline emits the next line of the chunk, paused or not
EmitLine ==
  /\ chunkRest > 0
  /\ chunkRest' = chunkRest - 1
  /\ linesRead' = linesRead + 1
  /\ IF frontEnd = "line"
     THEN /\ replTurns' = beginTurn(replTurns)
          /\ UNCHANGED detector
     ELSE /\ detector' = push(detector, linesRead + 1)
          /\ replTurns' = afterFlush(replTurns, detector, push(detector, linesRead + 1))
  /\ UNCHANGED <<frontEnd, chunksRead, turnRest>>

\* the timer of the detector fires once the chunk has been handled
DetectorTimer ==
  /\ frontEnd = "paste"
  /\ chunkRest = 0
  /\ detector.timer
  /\ detector' = flush(detector)
  /\ replTurns' = afterFlush(replTurns, detector, flush(detector))
  /\ UNCHANGED <<frontEnd, chunkRest, chunksRead, linesRead, turnRest>>

\* a run() in progress returns and its handler goes on
RunReturns(id) ==
  /\ chunkRest = 0
  /\ id \in replTurns.running
  /\ replTurns' = endTurn(replTurns, id)
  /\ UNCHANGED <<frontEnd, chunkRest, chunksRead, linesRead, detector, turnRest>>


MoreParked == InitMode /\ InitReg /\ InitParse /\ InitPrompt /\ InitSig /\ InitHist /\ InitSess /\ InitPaste /\ InitTurn
SideParked == StreamParked /\ RetryParked /\ InitChat /\ MoreParked

-----------------------------------------------------------------------------
(* Specifications.                                                           *)

\* the tool executor with the built-in tools
InitExecSpec == InitExec /\ InitCmd /\ RunParked /\ SideParked
\* a call of execute() with any of the tool calls, while no call is in progress
ExecuteCall ==
  /\ epc = "idle"
  /\ \E c \in ToolCalls : \E io \in IoFor(c), co \in CoFor(c) : Execute(c, io, co)

\* any answer typed at the approval prompt
AnswerPrompt ==
  /\ epc = "prompt"
  /\ \E a \in Answers : \E io \in IoFor(call), co \in CoFor(call) : Answer(a, io, co)

NextExec == ExecuteCall \/ AnswerPrompt
SpecExec == InitExecSpec /\ [][NextExec]_vars

\* the run_command handler
InitCmdSpec == ExecParked /\ InitCmd /\ RunParked /\ SideParked
NextCmd ==
  /\ cmdIn = NoCmd
  /\ \E p \in CmdParams, o \in ChildOutcomes :
        RunCommand(p, o) /\ UNCHANGED <<execVars, runVars, sideVars>>
SpecCmd == InitCmdSpec /\ [][NextCmd]_vars

\* AgentOrchestrator.run()
InitRunSpec == ExecParked /\ InitCmd /\ InitRun /\ SideParked
\* the LLM answers the request of an iteration with any response
Respond ==
  /\ rpc = "llm"
  /\ \E r \in Responses : LLMRespond(r)

\* the next tool call of the response is executed, with any outcome
Dispatch ==
  /\ rpc = "tools"
  /\ \E o \in ExecOutcomes(nextCall(pending), runMode) : DispatchTool(o)

NextRun == Respond \/ LLMError \/ Dispatch
SpecRun == InitRunSpec /\ [][NextRun]_vars

\* streamResponse() and the use run() makes of what it returns
InitStreamSpec ==
  ExecParked /\ InitCmd /\ RunParked /\ InitStream /\ RetryParked /\ InitChat /\ MoreParked
\* the next chunk, of any length
Deliver ==
  /\ spc = "streaming"
  /\ \E n \in 1..Len(sRest) : StreamChunk(n)

NextStream == Deliver \/ StreamEnd \/ StreamThrows \/ TakeTurn
SpecStream == InitStreamSpec /\ [][NextStream]_vars

\* fetchWithRetry around the request of chat()
InitRetrySpec ==
  ExecParked /\ InitCmd /\ RunParked /\ StreamParked /\ InitRetry /\ InitChat /\ MoreParked
\* fn() is called and comes to any of the replies
Request ==
  /\ fpc = "attempt"
  /\ \E reply \in Replies, j \in Jitters : Attempt(reply, j)

\* the request of chatStream() comes to any of the replies
RequestStream ==
  /\ fpc = "attempt"
  /\ \E reply \in Replies : StreamRequest(reply)

NextRetry == Request \/ RequestStream
SpecRetry == InitRetrySpec /\ [][NextRetry]_vars
\* fn() always settles: the loop of fetchWithRetry is not left waiting
SpecRetryLive == SpecRetry /\ WF_vars(NextRetry)

\* the REPL: inputs typed at the prompt, pasted as several lines, and /clear
InitChatSpec == ExecParked /\ InitCmd /\ RunParked /\ SideParked
\* an input at the prompt, with any run
TypeLine ==
  /\ chatInputs < MaxInputs
  /\ \E out \in RunOutcomes : LineInput(out)

\* an input of several lines, with any run
PasteLines ==
  /\ chatInputs < MaxInputs
  /\ \E out \in RunOutcomes : MultiLineInput(out)

NextChat == TypeLine \/ PasteLines \/ ClearHistory \/ Compress
SpecChat == InitChatSpec /\ [][NextChat]_vars

\* the executor of a chat session, and /mode typed at the prompt
InitModeSpec == InitExecSpec
\* /mode with any argument
SlashMode ==
  /\ epc = "idle"
  /\ \E arg \in ModeArgs : handleMode(arg)

NextMode == SlashMode \/ ExecuteCall \/ AnswerPrompt
SpecMode == InitModeSpec /\ [][NextMode]_vars

InitRegSpec == ExecParked /\ InitCmd /\ RunParked /\ SideParked
RegisterOne == \E t \in Tools : Register(t)
RegisterMany == \E ts \in ToolLists : RegisterAll(ts)
NextReg == RegisterOne \/ RegisterMany \/ Clear
SpecReg == InitRegSpec /\ [][NextReg]_vars

InitParseSpec == ExecParked /\ InitCmd /\ RunParked /\ SideParked
ReceiveText == /\ parseIn = <<>> /\ \E content \in ParseTexts : Receive(content)
NextParse == ReceiveText \/ Parse
SpecParse == InitParseSpec /\ [][NextParse]_vars

\* the terminal and the listeners of the REPL when execute() asks
InitPromptSpec ==
  /\ ExecParked /\ InitCmd /\ RunParked
  /\ StreamParked /\ RetryParked /\ InitChat
  /\ InitMode /\ InitReg /\ InitParse /\ InitSig /\ InitHist /\ InitSess /\ InitPaste /\ InitTurn
  /\ stdinListeners \in ListenerSetups
  /\ isTTY \in BOOLEAN /\ isRaw \in BOOLEAN /\ (isRaw => isTTY)
  /\ ppc = "idle"
  /\ pev = NoPev
StdinEmits == /\ ppc \in {"waiting", "preview"} /\ \E chunk \in Chunks : StdinData(chunk)
NextPrompt == StartApproval \/ Reprompt \/ StdinEmits
SpecPrompt == InitPromptSpec /\ [][NextPrompt]_vars

InitSigSpec == ExecParked /\ InitCmd /\ RunParked /\ SideParked
TimePasses == /\ sigpc = "running" /\ \E d \in Delays : Tick(d)
NextSig == TimePasses \/ Sigint
SpecSig == InitSigSpec /\ [][NextSig]_vars

InitHistSpec == ExecParked /\ InitCmd /\ RunParked /\ SideParked
StartSession == /\ cmdHistory = NoHistory /\ \E file \in OldFiles : OpenHistory(file)
AddCommand == /\ cmdHistory # NoHistory /\ \E c \in Commands : Add(c)
NextHist == StartSession \/ ReopenHistory \/ AddCommand
SpecHist == InitHistSpec /\ [][NextHist]_vars

\* ---- saved sessions ----
InitSessSpec == ExecParked /\ InitCmd /\ RunParked /\ SideParked
SaveSession == \E name \in SessionNames \cup {NoName} : SaveCurrentSession(name)
LoadSaved == \E arg \in LoadArgs : LoadSession(arg)
SessTurn == \E success \in BOOLEAN, n \in 0..1, rt \in {1, 2} : SessionTurn(success, n, rt)
NextSess == SaveSession \/ LoadSaved \/ SessTurn \/ RestartChat
SpecSess == InitSessSpec /\ [][NextSess]_vars

\* ---- the paste detector ----
InitPasteSpec == ExecParked /\ InitCmd /\ RunParked /\ SideParked
LinesArrive == \E k \in BurstSizes : PushBurst(k)
NextPaste == LinesArrive \/ TimerFires \/ ClearDetector
SpecPaste == InitPasteSpec /\ [][NextPaste]_vars

\* ---- turns of the REPL ----
InitTurnSpec == ExecParked /\ InitCmd /\ RunParked /\ SideParked
ChatStarts == \E fe \in {"line", "paste"} : StartChat(fe)
ChunkArrives == \E k \in ChunkSizes(frontEnd) : StdinChunk(k)
RunEnds == \E id \in replTurns.running : RunReturns(id)
NextTurn == ChatStarts \/ ChunkArrives \/ EmitLine \/ DetectorTimer \/ RunEnds
SpecTurn == InitTurnSpec /\ [][NextTurn]_vars

Init == InitExec /\ InitCmd /\ InitRun /\ SideParked
Next == NextExec \/ NextCmd \/ NextRun \/ NextStream \/ NextRetry \/ NextChat \/ NextMode
          \/ NextReg \/ NextParse \/ NextPrompt \/ NextSig \/ NextHist \/ NextSess \/ NextPaste \/ NextTurn
Spec == InitRunSpec /\ [][NextRun]_vars

-----------------------------------------------------------------------------
(* Properties of the tool executor (SpecExec), of the run_command handler    *)
(* (SpecCmd) and of AgentOrchestrator.run() (SpecRun).                       *)

\* the file tools, whose calls carry a path parameter
PathTools == {"read_file", "list_directory", "write_file", "apply_diff"}

\* C1: for every call of a file tool that carries a path parameter, if the
\* normalized absolute path is not a descendant of workspaceRoot then the call
\* returns a failed ToolResult and no read, write or listing is performed on
\* that path.
C1_OutsidePathFailsUntouched ==
  (/\ epc = "idle"
   /\ call.tool \in PathTools
   /\ has(call.params, "path") /\ call.params["path"].ty = "string"
   /\ call.params["path"].v # <<>>
   /\ ~isDescendant(fsPath(call.params["path"].v)))
  => /\ ~result.success
     /\ \A o \in ev.ops : o.path # fsPath(call.params["path"].v)

\* C2: in review mode the handler of a tool not marked safe is invoked only
\* after the approval prompt of that same call was answered yes (possibly after
\* diff re-prompts); on a no answer the call returns the failed user-cancelled
\* result and neither a backup nor the handler is executed.
C2_ReviewHandlerOnlyAfterYes ==
  (/\ safetyMode = "review"
   /\ call.tool \in RegisteredTools
   /\ ~definitionOf(call.tool).safe)
  => /\ ev.handler > 0 =>
          ev.prompts >= 1 /\ ev.answered /\ ev.answer \in {"y", "yes"}
     /\ ev.backupCalls # {} =>
          ev.prompts >= 1 /\ ev.answered /\ ev.answer \in {"y", "yes"}
     /\ (ev.answered /\ ev.answer \in {"n", "no"}) =>
          /\ epc = "idle"
          /\ result = Fail("user-cancelled")
          /\ ev.handler = 0 /\ ev.backupCalls = {}
          /\ fs = ev.pre /\ backups = ev.preBackups

\* a write_file approved after one diff re-prompt has run its handler
C2_Witness ==
  /\ safetyMode = "review" /\ call.tool = "write_file"
  /\ ev.prompts = 2 /\ ev.answer = "yes" /\ ev.handler = 1 /\ result.success

\* C3: in dry-run mode no handler is invoked, no backup is created and no
\* approval prompt is shown; every call to a registered tool whose required
\* parameters are present returns the successful simulated result.
C3_DryRunSimulates ==
  safetyMode = "dry-run"
  => /\ epc = "idle"
     /\ ev.handler = 0 /\ ev.backupCalls = {} /\ ev.prompts = 0
     /\ fs = ev.pre /\ backups = ev.preBackups
     /\ (/\ call.tool \in RegisteredTools
         /\ validateParams(call, definitionOf(call.tool)))
        => result = Ok("simulated")

\* a read_file and a write_file were simulated in dry-run mode
C3_Witness ==
  /\ safetyMode = "dry-run" /\ call.tool \in {"read_file", "write_file"}
  /\ has(call.params, "path") /\ result = Ok("simulated") /\ nCalls = 1

\* C4: for every run_command (or exec) call whose command line has a
\* blocklisted command as its first token, the handler returns a failed result
\* and no child process is spawned.
C4_BlockedFirstTokenNotSpawned ==
  LET firstToken(s) ==
        LET ws == { i \in 1..Len(s) : s[i] \in Whitespace } IN
        IF ws = {} THEN s
        ELSE SubSeq(s, 1, (CHOOSE i \in ws : \A j \in ws : i <= j) - 1)
  IN
  (/\ has(cmdIn, "command") /\ cmdIn["command"].ty = "string"
   /\ firstToken(trim(cmdIn["command"].v)) \in blockedCommands)
  => ~cmdOut.result.success /\ ~cmdOut.spawned

\* C5: whenever the handler of a tool is invoked, every required parameter of
\* its definition is present and every provided parameter has its declared
\* type; a call violating either returns a failed result before any prompt,
\* backup or handler invocation.
C5_HandlerParamsMatchSchema ==
  LET def   == definitionOf(call.tool)
      wellTyped ==
        /\ validateParams(call, def)
        /\ \A i \in 1..Len(def.parameters) :
              has(call.params, def.parameters[i].name)
              => call.params[def.parameters[i].name].ty = def.parameters[i].type
  IN
  call.tool \in RegisteredTools
  => /\ ev.handler > 0 => wellTyped
     /\ ~wellTyped => /\ epc = "idle" /\ ~result.success
                      /\ ev.prompts = 0 /\ ev.backupCalls = {} /\ ev.handler = 0

\* C6: after every successful write_file or apply_diff on a file that existed
\* before the call (backups enabled), a backup of that file exists whose
\* content is identical to the file's content immediately before the call.
C6_BackupOfOverwrittenFile ==
  LET target == fsPath(trim(call.params["path"].v))
      enabled == ~(has(call.params, "create_backup")
                   /\ call.params["create_backup"] = Bool(FALSE_))
  IN
  (/\ epc = "idle"
   /\ call.tool \in {"write_file", "apply_diff"}
   /\ has(call.params, "path") /\ call.params["path"].ty = "string"
   /\ ev.handler = 1 /\ result.success
   /\ enabled
   /\ exists(ev.pre, target))
  => \/ /\ target \in DOMAIN backups
        /\ backups[target] # <<>>
        /\ backups[target][Len(backups[target])] = ev.pre.files[target]
     \/ /\ exists(fs, target \o BackupSuffix)
        /\ fs.files[target \o BackupSuffix] = ev.pre.files[target]

\* C7: if a call to the same tool fails in each of three consecutive
\* iterations, run() makes no fourth LLM request and returns success=true with
\* iterations=3 and a finalResponse that contains an advisory naming the tool.
C7_ThreeFailuresAdvisory ==
  (/\ Len(hist) = 3
   /\ \A i \in 1..3 : hist[i].iter = i /\ ~hist[i].success /\ hist[i].tool = hist[1].tool
   /\ pending = <<>>)
  => /\ rpc = "done"
     /\ runResult.success
     /\ runResult.iterations = 3
     /\ \E k \in DOMAIN runResult.finalResponse :
           runResult.finalResponse[k] = AdvisoryPart(hist[1].tool)

\* C8: run() terminates through the consecutive-failure rule only when the
\* same tool has failed in three consecutive iterations; it never terminates
\* this way before iteration 3.
C8_BreakerNeedsThreeIterations ==
  console # <<>>
  => /\ iterations >= 3
     /\ \E t \in RunTools :
           \A i \in (iterations - 2)..iterations :
              \E k \in DOMAIN hist :
                 hist[k].iter = i /\ hist[k].tool = t /\ ~hist[k].success

\* C9: for every behaviour of the LLM and of the tools, run() performs at most
\* maxIterations iterations and then returns success=true.
C9_AtMostMaxIterations == iterations <= maxIterations

\* C10: no outcome of a tool call makes run() return success=false; each is
\* turned into a failed tool result that stays inside the conversation.
C10_ToolFailuresStayInConversation ==
  rpc = "done"
  => /\ (~runResult.success => runResult.error = "transport")
     /\ \A k \in DOMAIN hist :
           ~hist[k].success
           => \E m \in DOMAIN runResult.messages :
                 /\ runResult.messages[m].kind = "results"
                 /\ runResult.messages[m].iter = hist[k].iter
                 /\ \E b \in DOMAIN runResult.messages[m].blocks :
                       runResult.messages[m].blocks[b] =
                         [tool |-> hist[k].tool, success |-> FALSE, kind |-> hist[k].kind]

\* the dispatched calls of iteration i, as result blocks in dispatch order
dispatchedBlocks(i) ==
  LET h == SelectSeq(hist, LAMBDA x : x.iter = i)
  IN  [k \in 1..Len(h) |-> [tool |-> h[k].tool, success |-> h[k].success,
                            kind |-> h[k].kind]]

\* msgs ends with the assistant message of iteration i immediately followed by
\* one user-role message holding the blocks bs
endsWithTurn(msgs, i, bs) ==
  /\ Len(msgs) >= 2
  /\ msgs[Len(msgs) - 1].role = "assistant"
  /\ msgs[Len(msgs) - 1].iter = i
  /\ msgs[Len(msgs)] = Msg("user", "results", i, 1, bs)

\* the tools named by a sequence of blocks or of history entries
toolsOf(bs) == [k \in 1..Len(bs) |-> bs[k].tool]

\* C12: at the end of every iteration in which a tool call was dispatched,
\* whatever check ends the run afterwards, the conversation (and the returned
\* messages) holds that iteration's assistant message immediately followed by
\* exactly one user-role message with one result block per dispatched call.
C12_IterationEndsWithResultsMessage ==
  (/\ rpc \in {"llm", "done"}
   /\ hist # <<>>
   /\ hist[Len(hist)].iter = iterations)
  => /\ endsWithTurn(messages, iterations, dispatchedBlocks(iterations))
     /\ rpc = "done"
        => endsWithTurn(runResult.messages, iterations, dispatchedBlocks(iterations))

\* C13: within one iteration the tool calls are dispatched one at a time in
\* the order parseToolCalls returns them, which is the document order of the
\* invokes across the action blocks of the response; the result blocks stand
\* in the same order.
C13_DispatchInDocumentOrder ==
  /\ rpc = "tools"
     => /\ messages[Len(messages)].role = "assistant"
        /\ toolsOf(messages[Len(messages)].blocks) = toolsOf(toolResults) \o pending
        /\ toolResults = dispatchedBlocks(iterations)
  /\ (rpc # "tools" /\ messages[Len(messages)].kind = "results")
     => /\ messages[Len(messages) - 1].role = "assistant"
        /\ toolsOf(messages[Len(messages)].blocks)
             = toolsOf(messages[Len(messages) - 1].blocks)
        /\ messages[Len(messages)].blocks
             = dispatchedBlocks(messages[Len(messages)].iter)

\* two calls of different tools, the first dispatched and the second waiting
C13_Witness ==
  /\ rpc = "tools"
  /\ Len(toolResults) = 1
  /\ Len(pending) = 2
  /\ toolResults[1].tool = "write_file"
  /\ pending = <<"read_file", "nope">>

\* C14: outside dry-run mode, when a tool call that is not the last of its
\* turn fails, no later call of that turn is dispatched.
C14_FailureSkipsRestOfTurn ==
  \A k \in 1..(Len(hist) - 1) :
     (runMode # "dry-run" /\ ~hist[k].success) => hist[k + 1].iter # hist[k].iter

\* C15 as stated: run() returns iterations equal to the number of assistant
\* responses it obtained and toolCallsExecuted equal to the number of calls it
\* dispatched; a response with zero tool calls ends the run at once with
\* success=true and that response's plaintext as finalResponse.
C15_CountsAsStated ==
  /\ rpc = "done"
     => /\ runResult.iterations = Len(responses)
        /\ runResult.toolCallsExecuted = Len(hist)
  /\ (responses # <<>> /\ responses[Len(responses)] = 0)
     => /\ rpc = "done"
        /\ runResult.success
        /\ runResult.finalResponse = <<TextPart(Len(responses))>>

\* C15, amended: a run that returns success=true reports iterations equal to
\* the number of responses obtained; a run that returns success=false after a
\* transport error reports one more, the request that failed; in both cases
\* toolCallsExecuted is the number of calls dispatched, and a response with
\* zero tool calls ends the run at once with success=true and its plaintext.
C15_CountsOnReturn ==
  /\ rpc = "done"
     => /\ runResult.success => runResult.iterations = Len(responses)
        /\ ~runResult.success => runResult.iterations = Len(responses) + 1
        /\ runResult.toolCallsExecuted = Len(hist)
  /\ (responses # <<>> /\ responses[Len(responses)] = 0)
     => /\ rpc = "done"
        /\ runResult.success
        /\ runResult.iterations = Len(responses)
        /\ runResult.finalResponse = <<TextPart(Len(responses))>>

\* one response with one tool call, then a response without: 2 and 1
C15_Witness ==
  /\ rpc = "done"
  /\ runResult.success
  /\ responses = <<1, 0>>
  /\ runResult.iterations = 2
  /\ runResult.toolCallsExecuted = 1

\* the conversation as the request of the step just taken saw it
requestMessages ==
  IF rpc' = "tools" THEN SubSeq(messages', 1, Len(messages') - 1) ELSE messages'

\* C19: auto-compression happens only when the token estimate exceeds 6400 and
\* the conversation has more than 10 messages; right after it the conversation
\* is the original first message, one system-role marker, and the six
\* messages that were last before, unchanged and in order.
C19_CompressionKeepsLastSix ==
  [][ (rpc = "llm" /\ rpc' # "llm" /\ requestMessages # messages)
      => /\ estimateTokens(messages) > 6400
         /\ Len(messages) > 10
         /\ Len(requestMessages) = 8
         /\ requestMessages[1] = messages[1]
         /\ requestMessages[1].role = "system"
         /\ requestMessages[2].role = "system"
         /\ requestMessages[2].kind = "marker"
         /\ \A j \in 1..6 :
               requestMessages[2 + j] = messages[Len(messages) - 6 + j] ]_vars

\* a conversation that has been compressed
C19_Witness ==
  /\ Len(messages) >= 8
  /\ messages[2].kind = "marker"
  /\ messages[1].role = "system"

\* C11: if the LLM transport raises an error while an iteration's response is
\* being obtained, before the first chunk or in the middle of the stream, the
\* partial text is not treated as a completed assistant turn (run() returns
\* success=false instead).
C11_TransportErrorEndsRun == streamFailed => ~assistantTurn.taken

\* C16: however the assistant text is split into chunks, no character of an
\* <action>...</action> region, tags included, is written to the display.
C16_ActionRegionNeverDisplayed ==
  \A k \in DOMAIN stream.display : stream.display[k] \notin RegionChars

\* ground truth: a transient failure is a network failure (fetch rejected),
\* HTTP 429, or any HTTP 5xx
transient(reply) ==
  reply.status = 0 \/ reply.status = 429 \/ reply.status \in 500..599

\* C20: a failed LLM request is retried if and only if its error is
\* transient (network failure, HTTP 429, any HTTP 5xx); an error from any
\* other 4xx reply is never retried and propagates after a single attempt.
C20_RetriedIffTransient ==
  \A k \in DOMAIN attempts :
     (~ok(attempts[k].reply) /\ k < totalAttempts)
     => (attempts[k].retried <=> transient(attempts[k].reply))

\* C17: after any number of run() invocations on the same conversation, the
\* system message contains the tool-documentation appendix exactly once.
C17_AppendixExactlyOnce ==
  chatInputs > 0 => docsCount(chatMessages[1]) = 1

\* C18: when the REPL appends result.messages to its history after a
\* successful run, the history is the history before the run followed only
\* by the messages created during that run (the input of the turn and what
\* run() pushed); no earlier message appears twice.
C18_HistoryGrowsByCreatedMessages ==
  (chatEv.handler = "line" /\ chatEv.success)
  => SubSeq(chatMessages, 2, Len(chatMessages))
       = SubSeq(chatEv.pre, 2, Len(chatEv.pre)) \o <<chatEv.input>> \o chatEv.created

\* C21: the retry policy covers the streaming request: a transient failure
\* when the chatStream request is issued is retried up to three times before
\* any error reaches the orchestrator.
C21_StreamRequestRetried ==
  (thrown = "stream" /\ transient(attempts[Len(attempts)].reply))
  => Len(attempts) = totalAttempts

\* C22: when a run_command child process exceeds its timeout, the child is
\* killed and the handler returns a failed ToolResult (success=false) whose
\* metadata has timedOut=true.
C22_TimeoutFailsResult ==
  cmdOut.timedOut => ~cmdOut.result.success

\* C23: after the user issues /mode M with a valid mode M, every subsequent
\* tool dispatch in that chat session is mediated under safety mode M.
C23_DispatchUnderChosenMode ==
  (envMode.value # <<>> /\ nCalls > envMode.since)
  => modeText(safetyMode) = envMode.value

\* getBackupHistory(target).length > 0 for the target of the last call
backupExists == \E p \in ev.backupCalls : p \in DOMAIN backups /\ backups[p] # <<>>

\* C24: in review mode, when write_file or apply_diff has failed and a backup
\* of the target exists, the user was offered a rollback before execute()
\* returned the failed result
C24_RollbackOfferedOnFailure ==
  (/\ safetyMode = "review" /\ epc = "idle"
   /\ call.tool \in {"write_file", "apply_diff"}
   /\ ev.handler = 1 /\ ~result.success /\ backupExists)
  => ev.rollbackAsked

\* C26: register() on a name already present with the identical handler
\* succeeds and leaves the registry unchanged; with a different handler it
\* raises an error and leaves the registry unchanged
C26_RegisterIdempotentPerHandler ==
  (regEv.op = "register" /\ regEv.arg[1].name \in DOMAIN regEv.before)
  => /\ tools = regEv.before
     /\ regEv.threw = (regEv.before[regEv.arg[1].name] # regEv.arg[1].handler)

\* the file an apply_diff call works on, the content it read and the metadata
\* of its successful result
diffTarget == handlerPathCheck(trim(call.params["path"].v)).abs
diffOriginal ==
  IF exists(ev.pre, diffTarget) THEN ev.pre.files[diffTarget] ELSE EmptyContent
diffMetadata == diffStats(diffOriginal, fs.files[diffTarget])
diffApplied ==
  epc = "idle" /\ call.tool = "apply_diff" /\ ev.handler = 1 /\ result.success

\* the number of lines of a diff that start with the mark c and are not the
\* file mark (c three times)
RECURSIVE markedLines(_, _)
markedLines(diffLines, c) ==
  IF diffLines = <<>> THEN 0
  ELSE (IF startsWith(Head(diffLines), <<c>>) /\ ~startsWith(Head(diffLines), <<c, c, c>>)
        THEN 1 ELSE 0) + markedLines(Tail(diffLines), c)

\* C27: on success apply_diff reports linesAdded equal to the number of lines
\* the diff adds and linesRemoved equal to the number of lines it removes
\* (a diff replacing one line by another: 1 and 1)
C27_StatsCountDiffLines ==
  diffApplied =>
    /\ diffMetadata.linesAdded = markedLines(split(trim(call.params["diff"].v), NL), "+")
    /\ diffMetadata.linesRemoved = markedLines(split(trim(call.params["diff"].v), NL), "-")

\* a unified diff that changes nothing: every line of it is blank, a file mark
\* or a hunk header
isEmptyDiff(diff) ==
  \A i \in 1..Len(split(trim(diff), NL)) :
     LET line == split(trim(diff), NL)[i] IN
     line = <<>> \/ startsWith(line, AT2) \/ startsWith(line, MINUS3)
                 \/ startsWith(line, PLUS3)

\* params.create_backup !== false
backupEnabled(params) ==
  ~(has(params, "create_backup") /\ params["create_backup"] = Bool(FALSE_))

\* C28: apply_diff of an empty unified diff to an existing file leaves the
\* file's contents unchanged and, with create_backup enabled, produces the
\* <path>.backup file
C28_EmptyDiffKeepsFileAndBacksUp ==
  (/\ epc = "idle" /\ call.tool = "apply_diff" /\ ev.handler = 1
   /\ isEmptyDiff(call.params["diff"].v)
   /\ exists(ev.pre, diffTarget) /\ backupEnabled(call.params))
  => /\ exists(fs, diffTarget) /\ fs.files[diffTarget] = ev.pre.files[diffTarget]
     /\ exists(fs, diffTarget \o BackupSuffix)

\* the number of occurrences of p in s
RECURSIVE occurrences(_, _)
occurrences(s, p) ==
  IF s = <<>> THEN 0
  ELSE (IF startsWith(s, p) THEN 1 ELSE 0) + occurrences(Tail(s), p)

\* the markup of a text has an action, invoke or param tag that is not closed
unclosedTag(s) ==
  \/ occurrences(s, OpenTag) > occurrences(s, CloseTag)
  \/ occurrences(s, InvokeWord) > occurrences(s, InvokeClose)
  \/ occurrences(s, ParamWord) > occurrences(s, ParamClose)

\* C29: for a text whose action markup has an unclosed action, invoke or
\* param tag, parseToolCalls returns zero tool calls and the whole input as
\* the text content
C29_MalformedMarkupIsPlainText ==
  (parseOut.returned /\ unclosedTag(parseIn))
  => parseOut.toolCalls = <<>> /\ parseOut.textContent = parseIn

C30_DoubleTapWithinWindow ==
  \A k \in 1..Len(sigHist) :
     /\ sigHist[k].exited
          <=> (\E i \in 1..(k - 1) : sigHist[k].at - sigHist[i].at < SigintWindow)
     /\ ~sigHist[k].exited
          => /\ sigHist[k].hint /\ sigHist[k].prompted
             /\ (k = Len(sigHist) => lastSigintTime = sigHist[k].at /\ sigpc = "running")

\* a SIGINT exactly 3 seconds after the first gave the hint again, and one
\* inside the window it opened ended the process
C30_Witness ==
  /\ Len(sigHist) = 3 /\ sigpc = "exited"
  /\ sigHist[2].at - sigHist[1].at = SigintWindow
  /\ sigHist[3].at - sigHist[2].at = 2999

\* the number of failures of one tool in a row that end the dispatched calls
RECURSIVE failuresInARow(_)
failuresInARow(h) ==
  IF h = <<>> \/ h[Len(h)].success THEN 0
  ELSE IF Len(h) >= 2 /\ ~h[Len(h) - 1].success /\ h[Len(h) - 1].tool = h[Len(h)].tool
  THEN 1 + failuresInARow(SubSeq(h, 1, Len(h) - 1))
  ELSE 1

\* C34: the consecutive-failure counter goes up exactly when a tool fails
\* right after a failure of the same tool; a success, or a failure of a
\* different tool, starts a new count
C34_CounterCountsSameToolFailures ==
  /\ consecutiveFailures = failuresInARow(hist)
  /\ lastFailedTool = (IF hist = <<>> \/ hist[Len(hist)].success
                       THEN "" ELSE hist[Len(hist)].tool)

\* two failures of one tool right after a failure of another tool
C34_Witness ==
  /\ Len(hist) >= 3
  /\ ~hist[Len(hist)].success /\ ~hist[Len(hist) - 1].success /\ ~hist[Len(hist) - 2].success
  /\ hist[Len(hist)].tool = hist[Len(hist) - 1].tool
  /\ hist[Len(hist) - 1].tool # hist[Len(hist) - 2].tool
  /\ consecutiveFailures = 2

\* the nominal wait before the n-th retry: 1 s, 2 s, 4 s
nominalDelay(n) == 1000 * (2 ^ (n - 1))

\* fetchWithRetry so far: at most four calls of fn, the waits within 25% of
\* the nominal ones, no call after a success, a return only with a success
retryWithinBudget ==
  /\ Len(attempts) <= 4
  /\ \A i \in 1..Len(attempts) :
       /\ attempts[i].retried
            => /\ i <= 3
               /\ 4 * attempts[i].delay >= 3 * nominalDelay(i)
               /\ 4 * attempts[i].delay <= 5 * nominalDelay(i)
       /\ i < Len(attempts) => (attempts[i].retried /\ ~ok(attempts[i].reply))
  /\ fpc = "returned" => ok(attempts[Len(attempts)].reply)
  /\ fpc = "thrown" => ~ok(attempts[Len(attempts)].reply)

\* C35: fetchWithRetry calls the request function at most 4 times, waits a
\* nominal 1 s, 2 s and 4 s (each within 25%) before the retries, and always
\* ends by returning the first successful result or by throwing
C35_BoundedRetriesThenDone ==
  []retryWithinBudget /\ <>(fpc \in {"returned", "thrown"})

\* four calls, with the shortest, the longest and the nominal wait
C35_Witness ==
  /\ Len(attempts) = 4 /\ fpc = "thrown" /\ thrown = "wrapped"
  /\ attempts[1].delay = 750 /\ attempts[2].delay = 2500 /\ attempts[3].delay = 4000

\* C31: after any sequence of add() calls the history file holds at most 1000
\* entries, and they are the most recently added entries in their order
C31_FileHoldsLatestThousand ==
  (cmdHistory # NoHistory /\ hOps > 0)
  => /\ Len(load(historyFile)) <= maxHistorySize
     /\ load(historyFile) = lastEntries(hAdded, maxHistorySize)

-----------------------------------------------------------------------------
(* C32: saving a chat session and then loading it, by id or by name,        *)
(* restores the message list, the session statistics and the active-file    *)
(* list of the time of saving.                                               *)

\* the session as it was when the file just loaded was written
savedState == sessSaved[sessEv.file]

\* C32: after a load that found a saved session, messages, statistics and
\* active files are those of the session at the time it was saved.
C32_LoadRestoresSavedSession ==
  (sessEv.op = "load" /\ sessEv.found)
  => /\ chatSess.messages = savedState.messages
     /\ chatSess.activeFiles = savedState.activeFiles
     /\ chatSess.sessionStats = savedState.sessionStats

-----------------------------------------------------------------------------
(* C36: the final reply of a successful turn is in the history that the     *)
(* next turn sends to the model.                                             *)

\* the message that holds the final response of a turn
finalReply == Msg("assistant", "final", 0, 1, <<>>)

\* C36: after a successful chat turn the history ends with the assistant's
\* final reply of that turn (the response without tool call), so that the
\* next turn sends it to the model.
C36_FinalReplyKeptInHistory ==
  (chatEv.handler \in {"line", "multiline"} /\ chatEv.success)
  => chatMessages[Len(chatMessages)] = finalReply

-----------------------------------------------------------------------------
(* C38: the text of a string parameter reaches the handler as that string.  *)

\* !isNaN(Number(text)) && text !== "" for the texts of the model: digits
isNumeric(text) ==
  text # <<>> /\ \A i \in DOMAIN text :
                    text[i] \in {"0", "1", "2", "3", "4", "5", "6", "7", "8", "9"}

\* JSON.parse(text) succeeds, for the texts of the model
jsonParses(text) == text \in { <<"[", "]">>, <<"{", "}">> }

\* the value parseToolCalls stores for the trimmed text of a param
coerce(text) ==
  IF startsWith(text, <<"[">>) \/ startsWith(text, <<"{">>)
  THEN IF jsonParses(text) THEN [ty |-> "object", v |-> text] ELSE Str(text)
  ELSE IF text = TRUE_ \/ text = FALSE_ THEN Bool(text)
  ELSE IF isNumeric(text) THEN Num(text)
  ELSE Str(text)

\* the parameters of the call in progress that its definition declares as string
stringParams ==
  LET def == definitionOf(call.tool) IN
  { def.parameters[i].name :
      i \in { j \in 1..Len(def.parameters) :
                /\ def.parameters[j].type = "string"
                /\ has(call.params, def.parameters[j].name) } }

\* C38: when the handler is invoked, every parameter declared as string holds
\* the text written in the tool call, as a string (also a text that reads as
\* a number, a boolean or JSON), and the call is not rejected for the type
\* of such a value.
C38_StringTextReachesHandler ==
  (call.tool \in RegisteredTools /\ ev.handler > 0)
  => /\ \A n \in stringParams :
          /\ coerce(call.params[n].v) = Str(call.params[n].v)
          /\ call.params[n] = Str(call.params[n].v)
     /\ (has(call.params, "content") /\ call.tool = "write_file")
          => result.kind # "invalid-content"

-----------------------------------------------------------------------------
(* C39: a failed apply_diff leaves the target and an existing backup alone. *)

\* the file has the same content before and after the call (or is absent both times)
keptByCall(p) ==
  /\ exists(fs, p) <=> exists(ev.pre, p)
  /\ exists(fs, p) => fs.files[p] = ev.pre.files[p]

\* the handler of apply_diff ran for a path it can resolve and returned a failure
diffFailed ==
  /\ epc = "idle" /\ call.tool = "apply_diff" /\ ev.handler = 1 /\ ~result.success
  /\ has(call.params, "path") /\ call.params["path"].ty = "string"
  /\ trim(call.params["path"].v) # <<>>

\* C39: an apply_diff call that returns a failure leaves the target file and a
\* <path>.backup file that existed before the call with the contents they had
\* before the call.
C39_FailedDiffKeepsFileAndBackup ==
  diffFailed
  => /\ keptByCall(diffTarget)
     /\ exists(ev.pre, diffTarget \o BackupSuffix) => keptByCall(diffTarget \o BackupSuffix)

-----------------------------------------------------------------------------
(* C40: /compress never makes the conversation longer, keeps one system     *)
(* message and states a count of messages left out that is not negative.     *)

\* the positions of the history that hold the system message /compress found
systemCopies == { i \in 1..Len(chatMessages) : chatMessages[i] = chatEv.pre[1] }

\* C40: after /compress the history has no more messages than before, the
\* original system message is in it exactly once, at index 0, and the marker
\* it adds (at index 1) states a number of left-out messages that is not negative.
C40_CompressShrinksAndKeepsSystem ==
  chatEv.handler = "compress"
  => /\ Len(chatMessages) <= Len(chatEv.pre)
     /\ systemCopies = {1}
     /\ chatEv.success => chatMessages[2].iter >= 0

-----------------------------------------------------------------------------
(* C33: the PasteDetector delivers every line once, in order, a burst as    *)
(* one event, and isPaste tells whether the event has several lines.         *)

\* the lines handed to onComplete so far, in order
deliveredLines == joinEntries([i \in 1..Len(detector.events) |-> detector.events[i].lines])

\* the lines pushed and not dropped by clear(), in order
keptLines == joinEntries(pdGroups)

\* C33: the lines delivered followed by the lines still buffered are the lines
\* pushed (without those dropped by clear or destroy), each once and in push
\* order; the i-th event carries exactly the i-th group of lines pushed with
\* gaps shorter than the delay; isPaste is true exactly for an event of more
\* than one line.
C33_LinesDeliveredOnceInGroups ==
  /\ deliveredLines \o detector.buffer = keptLines
  /\ Len(detector.events) <= Len(pdGroups)
  /\ \A i \in 1..Len(detector.events) :
        /\ i <= Len(pdGroups) => detector.events[i].lines = pdGroups[i]
        /\ detector.events[i].isPaste <=> Len(detector.events[i].lines) > 1

\* a group of lines cut into pieces of maxLines lines
RECURSIVE chop(_)
chop(g) ==
  IF Len(g) <= maxLines THEN <<g>>
  ELSE <<SubSeq(g, 1, maxLines)>> \o chop(SubSeq(g, maxLines + 1, Len(g)))

\* the pieces of all groups, in order
RECURSIVE cappedGroups(_)
cappedGroups(groups) ==
  IF groups = <<>> THEN <<>> ELSE chop(Head(groups)) \o cappedGroups(Tail(groups))

\* C33 (as the code has it): every line pushed and not dropped by clear or
\* destroy is delivered once and in push order; lines pushed with gaps shorter
\* than the delay are delivered together, except that the buffer is handed
\* over at once when it holds maxLines lines, so that a longer burst arrives
\* in events of maxLines lines and a rest; isPaste is true exactly for an
\* event of more than one line.
C33_LinesDeliveredOnceInCappedGroups ==
  /\ deliveredLines \o detector.buffer = keptLines
  /\ Len(detector.events) <= Len(cappedGroups(pdGroups))
  /\ \A i \in 1..Len(detector.events) :
        /\ detector.events[i].lines = cappedGroups(pdGroups)[i]
        /\ Len(detector.events[i].lines) <= maxLines
        /\ detector.events[i].isPaste <=> Len(detector.events[i].lines) > 1

\* a burst of maxLines + 1 lines has arrived in two events, typed lines in
\* events of their own
C33_Witness ==
  /\ Len(detector.events) = 3
  /\ Len(pdGroups) = 2
  /\ Len(detector.events[1].lines) = 1 /\ ~detector.events[1].isPaste
  /\ Len(detector.events[2].lines) = maxLines /\ detector.events[2].isPaste
  /\ Len(detector.events[3].lines) = 1
  /\ detector.buffer = <<>>

-----------------------------------------------------------------------------
(* C37: one orchestrator.run() at a time for a ChatSession.                 *)

\* C37: at most one run() is in progress, and the message list is changed by
\* one turn at a time: the result of a turn follows the user message of that
\* turn with nothing of another turn in between.
C37_OneRunAtATime ==
  /\ Cardinality(replTurns.running) <= 1
  /\ \A i \in 1..Len(replTurns.log) :
        replTurns.log[i].what = "result"
        => i > 1 /\ replTurns.log[i - 1] = [turn |-> replTurns.log[i].turn, what |-> "user"]

=============================================================================
